---- MODULE Spec2Model ----
(***************************************************************************)
(* Model of the LINE webhook handler of jukugo_kasane: the command parser, *)
(* the per-identity settings blob, the quiz slots and the reply/cleanup    *)
(* paths of LineHandler.                                                   *)
(*                                                                         *)
(* Strings of the program are sequences of Unicode code points, so that    *)
(* strip/split/isdigit/int and the allow-list are computed as the code     *)
(* computes them.                                                          *)
(***************************************************************************)
EXTENDS Integers, Sequences, FiniteSets, TLC

(***************************************************************************)
(* Python string primitives                                                *)
(***************************************************************************)

\* str.isspace() code points (CPython 3.11), used by str.strip()/str.split()
SpaceChars ==
    {9, 10, 11, 12, 13, 28, 29, 30, 31, 32, 133, 160, 5760, 8232, 8233,
     8239, 8287, 12288} \cup (8192..8202)

\* line boundaries of str.splitlines()
LineBreakChars == {10, 11, 12, 13, 28, 29, 30, 133, 8232, 8233}

\* code points for which str.isdigit() is true and int() accepts (category Nd):
\* ASCII digits and fullwidth digits
AsciiDigits == 48..57
FullwidthDigits == 65296..65305
DecimalChars == AsciiDigits \cup FullwidthDigits

\* code points for which str.isdigit() is true but int() raises ValueError
\* (superscript digits)
DigitOnlyChars == {178, 179, 185}

DOT == 46
SP == 32
NL == 10
EQ == 61
AT == 64
SLASH == 47
HASH == 35

IsSpace(c) == c \in SpaceChars

RECURSIVE LStrip(_)
LStrip(s) ==
    IF s = <<>> THEN <<>>
    ELSE IF IsSpace(Head(s)) THEN LStrip(Tail(s)) ELSE s

RECURSIVE RStrip(_)
RStrip(s) ==
    IF s = <<>> THEN <<>>
    ELSE IF IsSpace(s[Len(s)]) THEN RStrip(SubSeq(s, 1, Len(s) - 1)) ELSE s

\* str.strip()
Strip(s) == RStrip(LStrip(s))

\* c in s
Contains(s, c) == \E i \in 1..Len(s) : s[i] = c

\* index of the first occurrence of c in s (0 when absent)
FindChar(s, c) ==
    IF Contains(s, c)
    THEN CHOOSE i \in 1..Len(s) : s[i] = c /\ \A j \in 1..(i - 1) : s[j] # c
    ELSE 0

\* s.split(c, 1) for a string that contains c: the parts before and after
\* the first occurrence
SplitFirst(s, c) ==
    LET i == FindChar(s, c)
    IN  <<SubSeq(s, 1, i - 1), SubSeq(s, i + 1, Len(s))>>

\* s.partition(" ")[2]: the text after the first space ("" when none)
AfterFirstSpace(s) ==
    IF Contains(s, SP) THEN SplitFirst(s, SP)[2] ELSE <<>>

\* s.startswith(p)
StartsWith(s, p) == Len(p) <= Len(s) /\ SubSeq(s, 1, Len(p)) = p

\* s[n:]
DropFirst(s, n) == SubSeq(s, n + 1, Len(s))

\* str.lower() on the ASCII letters
LowerChar(c) == IF c \in 65..90 THEN c + 32 ELSE c
Lower(s) == [i \in 1..Len(s) |-> LowerChar(s[i])]

\* str.isdigit(): non-empty and every character is a digit
IsDigit(s) == s # <<>> /\ \A i \in 1..Len(s) : s[i] \in DecimalChars \cup DigitOnlyChars

\* int() raises ValueError on digits that are not decimal
IntRaises(s) == \E i \in 1..Len(s) : s[i] \notin DecimalChars

DigitValue(c) == IF c \in AsciiDigits THEN c - 48 ELSE c - 65296

\* int(s) for a string of decimal digits
RECURSIVE IntOf(_)
IntOf(s) ==
    IF s = <<>> THEN 0
    ELSE 10 * IntOf(SubSeq(s, 1, Len(s) - 1)) + DigitValue(s[Len(s)])

\* str.splitlines() (a "\r\n" pair gives an extra empty line here, which every
\* caller filters out)
RECURSIVE SplitLines(_)
SplitLines(s) ==
    IF s = <<>> THEN <<>>
    ELSE IF \E i \in 1..Len(s) : s[i] \in LineBreakChars
    THEN LET i == CHOOSE k \in 1..Len(s) :
                    s[k] \in LineBreakChars
                    /\ \A j \in 1..(k - 1) : s[j] \notin LineBreakChars
         IN  <<SubSeq(s, 1, i - 1)>> \o SplitLines(SubSeq(s, i + 1, Len(s)))
    ELSE <<s>>

\* str.split(): the whitespace-separated tokens
RECURSIVE SplitWs(_)
SplitWs(s) ==
    LET t == LStrip(s)
    IN  IF t = <<>> THEN <<>>
        ELSE IF \E i \in 1..Len(t) : IsSpace(t[i])
        THEN LET i == CHOOSE k \in 1..Len(t) :
                        IsSpace(t[k]) /\ \A j \in 1..(k - 1) : ~IsSpace(t[j])
             IN  <<SubSeq(t, 1, i - 1)>> \o SplitWs(SubSeq(t, i + 1, Len(t)))
        ELSE <<t>>

\* " ".join(tokens)
RECURSIVE JoinSp(_)
JoinSp(ts) ==
    IF ts = <<>> THEN <<>>
    ELSE IF Len(ts) = 1 THEN ts[1]
    ELSE ts[1] \o <<SP>> \o JoinSp(Tail(ts))

\* the decimal text of a number 1..10, as an f-string prints it
NumText(n) == IF n = 10 THEN <<49, 48>> ELSE <<48 + n>>

(***************************************************************************)
(* Configuration: main.py line_keywords and line_texts                     *)
(***************************************************************************)

KwHelp == {<<20351, 12356, 26041>>, <<12504, 12523, 12503>>, <<104, 101, 108, 112>>}
KwSetting == <<35373, 23450>>
KwFont == <<12501, 12457, 12531, 12488>>
KwList == <<21839, 38988, 19968, 35239>>
KwMenuGenerate == <<21512, 25104>>
KwMenuRegister == <<21839, 38988, 30331, 37682>>
KwMenuList == <<21839, 38988, 19968, 35239>>
KwMenuSettings == <<35373, 23450>>
KwMenuUsage == <<20351, 12356, 26041>>
KwMenuMode == <<20986, 38988, 12514, 12540, 12489>>
KwMenuFont == <<12501, 12457, 12531, 12488>>
KwModeCommon == <<20849, 36890, 37096, 20998>>
KwModeUnion == <<21644, 38598, 21512>>
KwFontPrefix == <<102, 111, 110, 116, 95>>

\* texts["quiz_list_title"] is unset in main.py: the default of the handler
QuizListTitle == <<12304, 21839, 38988, 19968, 35239, 12305>>
\* texts["quiz_unset"]
QuizUnset == <<26410, 35373, 23450>>
\* the literal prefix of the list footer that the bulk parser skips
FooterPrefix == <<12464, 12523, 12540, 12503, 12391, 12300, 64>>
\* the literal that starts an answer-release command
AnswerWord == <<31572, 12360>>

\* ImageGenerator.font_key_map keys: mincho, monogothic, hiragino, dejavu
FontKeyMap ==
    {<<109, 105, 110, 99, 104, 111>>,
     <<109, 111, 110, 111, 103, 111, 116, 104, 105, 99>>,
     <<104, 105, 114, 97, 103, 105, 110, 111>>,
     <<100, 101, 106, 97, 118, 117>>}
FontDefault == <<100, 101, 102, 97, 117, 108, 116>>

(***************************************************************************)
(* LineCommandParser                                                       *)
(***************************************************************************)

\* the Hiragana range starting one code point early (0x3040)
is_allowed_char_AsFrom3040(code) ==
    \/ 12352 <= code /\ code <= 12447
    \/ 12448 <= code /\ code <= 12543
    \/ 19968 <= code /\ code <= 40959
    \/ 48 <= code /\ code <= 57
    \/ 65 <= code /\ code <= 90
    \/ 97 <= code /\ code <= 122

\* LineCommandParser._is_allowed_char
is_allowed_char(code) ==
    \/ 12353 <= code /\ code <= 12447
    \/ 12448 <= code /\ code <= 12543
    \/ 19968 <= code /\ code <= 40959
    \/ 48 <= code /\ code <= 57
    \/ 65 <= code /\ code <= 90
    \/ 97 <= code /\ code <= 122

is_allowed_word(text) == \A i \in 1..Len(text) : is_allowed_char(text[i])

is_two_char_word(text) == 2 <= Len(text) /\ Len(text) <= 8

\* _parse_setting: the {key: value} of "<setting keyword> key=value", or
\* the empty dict (ok = FALSE)
parse_setting(text) ==
    IF ~StartsWith(text, KwSetting) THEN [ok |-> FALSE, key |-> <<>>, value |-> <<>>]
    ELSE LET rest == AfterFirstSpace(text)
         IN  IF ~Contains(rest, EQ) THEN [ok |-> FALSE, key |-> <<>>, value |-> <<>>]
             ELSE LET kv == SplitFirst(rest, EQ)
                      key == Lower(Strip(kv[1]))
                      value == Strip(kv[2])
                  IN  IF key = <<>> \/ value = <<>>
                      THEN [ok |-> FALSE, key |-> <<>>, value |-> <<>>]
                      ELSE [ok |-> TRUE, key |-> key, value |-> value]

Cmd(t) == [type |-> t, key |-> <<>>, value |-> <<>>, word |-> <<>>]

\* keywords["prompt"] is not configured in main.py, so the prompt rule of
\* parse (parser.py 59-64) never matches and is left out.
parse(text) ==
    LET s0 == Strip(text)
        has_prefix == s0 # <<>> /\ Head(s0) \in {SLASH, HASH}
        stripped == IF has_prefix THEN Strip(Tail(s0)) ELSE s0
        setting == IF has_prefix THEN parse_setting(stripped)
                   ELSE [ok |-> FALSE, key |-> <<>>, value |-> <<>>]
    IN  IF has_prefix /\ stripped \in KwHelp THEN Cmd("help")
        ELSE IF setting.ok
        THEN [Cmd("setting") EXCEPT !.key = setting.key, !.value = setting.value]
        ELSE IF has_prefix /\ stripped = KwList THEN Cmd("list")
        ELSE IF has_prefix /\ stripped = KwMenuGenerate THEN Cmd("menu_generate")
        ELSE IF has_prefix /\ stripped = KwMenuRegister THEN Cmd("menu_register")
        ELSE IF has_prefix /\ stripped = KwMenuList THEN Cmd("menu_list")
        ELSE IF has_prefix /\ stripped = KwMenuSettings THEN Cmd("menu_settings")
        ELSE IF has_prefix /\ stripped = KwMenuUsage THEN Cmd("menu_usage")
        ELSE IF has_prefix /\ stripped = KwMenuMode THEN Cmd("menu_mode")
        ELSE IF has_prefix /\ stripped = KwMenuFont THEN Cmd("menu_font")
        ELSE IF has_prefix /\ stripped = KwModeCommon THEN Cmd("mode_common")
        ELSE IF has_prefix /\ stripped = KwModeUnion THEN Cmd("mode_union")
        ELSE IF has_prefix /\ StartsWith(stripped, KwFont)
        THEN LET font_value == Strip(AfterFirstSpace(stripped))
             IN  IF font_value = <<>> THEN Cmd("menu_font")
                 ELSE [Cmd("font") EXCEPT !.value = font_value]
        ELSE IF StartsWith(stripped, KwFontPrefix)
        THEN LET font_value == Strip(DropFirst(stripped, Len(KwFontPrefix)))
             IN  IF font_value = <<>> THEN Cmd("menu_font")
                 ELSE [Cmd("font") EXCEPT !.value = font_value]
        ELSE IF Contains(stripped, DOT) THEN Cmd("unknown")
        ELSE IF is_two_char_word(stripped)
        THEN IF ~is_allowed_word(stripped) THEN Cmd("invalid_word")
             ELSE [Cmd("both") EXCEPT !.word = stripped]
        ELSE Cmd("unknown")

(***************************************************************************)
(* Stores                                                                  *)
(***************************************************************************)

\* Python dict helpers: a dict is a function whose domain is its key set
EmptyDict == <<>>
DictGet(d, k, default) == IF k \in DOMAIN d THEN d[k] ELSE default
DictSet(d, k, v) == [x \in (DOMAIN d) \cup {k} |-> IF x = k THEN v ELSE d[x]]

\* the quiz slots of the handler (range(1, 11))
Slots == 1..10

\* line/store.py: the settings file holds one dict, identity -> user dict.
load_settings(blob) == blob

\* save_settings writes the whole blob; ok = FALSE is the except branch
\* (the write failed and nothing replaced the file)
save_settings(blob, new, ok) == IF ok THEN new ELSE blob

\* LineHandler._get_user_settings
get_user_settings(blob, user_key) == DictGet(load_settings(blob), user_key, EmptyDict)

put_user_settings_AsMerge(loaded, user_key, user_settings) ==
    LET old == DictGet(loaded, user_key, EmptyDict)
    IN  DictSet(loaded, user_key,
                [f \in (DOMAIN old) \cup (DOMAIN user_settings) |->
                    IF f \in DOMAIN user_settings THEN user_settings[f] ELSE old[f]])

\* settings[user_key] = user_settings: the entry of the identity in the
\* loaded blob is replaced as a whole
put_user_settings(loaded, user_key, user_settings) ==
    DictSet(loaded, user_key, user_settings)

\* a save that starts from an empty dict instead of the loaded file
save_user_settings_AsOnlyEntry(blob, user_key, user_settings, ok) ==
    save_settings(blob, put_user_settings(EmptyDict, user_key, user_settings), ok)

\* LineHandler._save_user_settings: load the blob, replace one entry, save
save_user_settings(blob, user_key, user_settings, ok) ==
    save_settings(blob, put_user_settings(load_settings(blob), user_key, user_settings), ok)

\* del d[k]
DictDel(d, k) == [x \in (DOMAIN d) \ {k} |-> d[x]]

\* The quiz_items table, per identity a dict slot number -> word: a row
\* exists exactly for the slots in the domain.

\* SqliteQuizStore.get_word ("" when the row is absent)
get_word(q, user_id, number) == DictGet(q[user_id], number, <<>>)

set_word_AsNoOld(q, user_id, number, word) ==
    [quiz |-> [q EXCEPT ![user_id] = DictSet(@, number, word)], old |-> <<>>]

\* SqliteQuizStore.set_word: read the old word, upsert, return the old word
set_word(q, user_id, number, word) ==
    [quiz |-> [q EXCEPT ![user_id] = DictSet(@, number, word)],
     old |-> get_word(q, user_id, number)]

\* SqliteQuizStore.delete_word
delete_word(q, user_id, number) == [q EXCEPT ![user_id] = DictDel(@, number)]

\* SqliteQuizStore.list_words: number -> word of the rows of the identity
list_words(q, user_id) == q[user_id]

(***************************************************************************)
(* ImageGenerator.normalize_font_key and LineHandler._normalize_font_key   *)
(***************************************************************************)

IsAlnumAscii(c) == c \in (48..57) \cup (65..90) \cup (97..122)

\* font_key_pattern ^[A-Za-z0-9]{2,10}$ under re.match: `$` also matches
\* before a line feed that ends the string
font_key_pattern(s) ==
    LET body == IF s # <<>> /\ s[Len(s)] = NL THEN SubSeq(s, 1, Len(s) - 1) ELSE s
    IN  Len(body) >= 2 /\ Len(body) <= 10 /\ \A i \in 1..Len(body) : IsAlnumAscii(body[i])

\* normalization without the lookup in font_key_map
generator_normalize_font_key_AsNoRegistry(font_key) ==
    IF font_key = <<>> THEN [ok |-> TRUE, font |-> FontDefault, err |-> "none"]
    ELSE IF ~font_key_pattern(font_key)
    THEN [ok |-> FALSE, font |-> <<>>, err |-> "font_pattern"]
    ELSE [ok |-> TRUE, font |-> font_key, err |-> "none"]

\* normalization that looks the key up in lower case
generator_normalize_font_key_AsLower(font_key) ==
    IF font_key = <<>> THEN [ok |-> TRUE, font |-> FontDefault, err |-> "none"]
    ELSE IF ~font_key_pattern(font_key)
    THEN [ok |-> FALSE, font |-> <<>>, err |-> "font_pattern"]
    ELSE IF Lower(font_key) # FontDefault /\ Lower(font_key) \notin FontKeyMap
    THEN [ok |-> FALSE, font |-> <<>>, err |-> "font_unavailable"]
    ELSE [ok |-> TRUE, font |-> font_key, err |-> "none"]

\* ImageGenerator.normalize_font_key
generator_normalize_font_key(font_key) ==
    IF font_key = <<>> THEN [ok |-> TRUE, font |-> FontDefault, err |-> "none"]
    ELSE IF ~font_key_pattern(font_key)
    THEN [ok |-> FALSE, font |-> <<>>, err |-> "font_pattern"]
    ELSE IF font_key # FontDefault /\ font_key \notin FontKeyMap
    THEN [ok |-> FALSE, font |-> <<>>, err |-> "font_unavailable"]
    ELSE [ok |-> TRUE, font |-> font_key, err |-> "none"]

\* the value handed to the generator as typed, without lower()
normalize_font_key_AsNoLower(text) == generator_normalize_font_key(Strip(text))

\* LineHandler._normalize_font_key
normalize_font_key(text) == generator_normalize_font_key(Lower(Strip(text)))

(***************************************************************************)
(* Quiz message and bulk list parsing                                      *)
(***************************************************************************)

QS(status, number, word) == [status |-> status, number |-> number, word |-> word]

\* LineHandler._parse_quiz_message.  status "none" is the None result and
\* status "raise" the ValueError of int() on a digit that is not decimal.
parse_quiz_message_AsNoCharCheck(text) ==
    LET payload == Strip(text)
    IN  IF ~Contains(payload, DOT) THEN QS("none", 0, <<>>)
        ELSE LET parts == SplitFirst(payload, DOT)
                 number_text == Strip(parts[1])
                 word == Strip(parts[2])
             IN  IF ~IsDigit(number_text) THEN QS("invalid_number", 0, <<>>)
                 ELSE IF IntRaises(number_text) THEN QS("raise", 0, <<>>)
                 ELSE LET number == IntOf(number_text)
                      IN  IF number < 1 \/ number > 10
                          THEN QS("invalid_number", 0, <<>>)
                          ELSE IF Len(word) < 2 \/ Len(word) > 8
                          THEN QS("invalid_length", number, word)
                          ELSE QS("ok", number, word)

parse_quiz_message(text) ==
    LET payload == Strip(text)
    IN  IF ~Contains(payload, DOT) THEN QS("none", 0, <<>>)
        ELSE LET parts == SplitFirst(payload, DOT)
                 number_text == Strip(parts[1])
                 word == Strip(parts[2])
             IN  IF ~IsDigit(number_text) THEN QS("invalid_number", 0, <<>>)
                 ELSE IF IntRaises(number_text) THEN QS("raise", 0, <<>>)
                 ELSE LET number == IntOf(number_text)
                      IN  IF number < 1 \/ number > 10
                          THEN QS("invalid_number", 0, <<>>)
                          ELSE IF Len(word) < 2 \/ Len(word) > 8
                          THEN QS("invalid_length", number, word)
                          ELSE IF ~is_allowed_word(word)
                          THEN QS("invalid_word", number, word)
                          ELSE QS("ok", number, word)

\* the non-blank stripped lines of a text
RECURSIVE NonBlankLines(_)
NonBlankLines(ls) ==
    IF ls = <<>> THEN <<>>
    ELSE IF Strip(Head(ls)) = <<>> THEN NonBlankLines(Tail(ls))
    ELSE <<Strip(Head(ls))>> \o NonBlankLines(Tail(ls))

BR(kind, entries) == [kind |-> kind, entries |-> entries]

\* the loop of _parse_bulk_quiz_list over lines[1:]; texts["quiz_list_footer"]
\* is not configured, so only the literal footer prefix is skipped
RECURSIVE BulkLines(_, _)
BulkLines(ls, entries) ==
    IF ls = <<>>
    THEN BR("entries", entries)
    ELSE LET line == Head(ls)
         IN  IF StartsWith(line, FooterPrefix) THEN BulkLines(Tail(ls), entries)
             ELSE IF ~Contains(line, DOT) THEN BR("entries", EmptyDict)
             ELSE LET parts == SplitFirst(line, DOT)
                      number_text == Strip(parts[1])
                      word == Strip(parts[2])
                  IN  IF ~IsDigit(number_text) THEN BR("entries", EmptyDict)
                      ELSE IF IntRaises(number_text) THEN BR("raise", EmptyDict)
                      ELSE LET number == IntOf(number_text)
                           IN  IF number < 1 \/ number > 10
                               THEN BR("entries", EmptyDict)
                               ELSE IF number \in DOMAIN entries
                               THEN BR("entries", EmptyDict)
                               ELSE BulkLines(Tail(ls), DictSet(entries, number, word))

\* LineHandler._parse_bulk_quiz_list: kind "none" is None (not a bulk list),
\* "entries" a dict (possibly empty), "raise" the ValueError of int()
parse_bulk_quiz_list(text) ==
    LET lines == NonBlankLines(SplitLines(text))
    IN  IF lines = <<>> THEN BR("none", EmptyDict)
        ELSE IF ~StartsWith(lines[1], QuizListTitle) THEN BR("none", EmptyDict)
        ELSE BulkLines(Tail(lines), EmptyDict)

\* the loop of _apply_bulk_quiz_update from slot `number` on: every slot is
\* written or deleted as soon as it is reached
RECURSIVE ApplyBulkFrom(_, _, _, _)
ApplyBulkFrom(q, user_key, entries, number) ==
    IF number > 10 THEN [quiz |-> q, ok |-> TRUE]
    ELSE IF number \notin DOMAIN entries THEN [quiz |-> q, ok |-> FALSE]
    ELSE LET word == entries[number]
         IN  IF word = QuizUnset
             THEN ApplyBulkFrom(delete_word(q, user_key, number), user_key,
                                entries, number + 1)
             ELSE IF Len(word) < 2 \/ Len(word) > 8 THEN [quiz |-> q, ok |-> FALSE]
             ELSE IF ~is_allowed_word(word) THEN [quiz |-> q, ok |-> FALSE]
             ELSE ApplyBulkFrom(set_word(q, user_key, number, word).quiz,
                                user_key, entries, number + 1)

\* LineHandler._apply_bulk_quiz_update
apply_bulk_quiz_update(q, user_key, entries) == ApplyBulkFrom(q, user_key, entries, 1)

(***************************************************************************)
(* Reply payloads                                                          *)
(***************************************************************************)

\* One message of a reply.  Fixed texts are named by their key in the texts
\* table; formatted texts carry their arguments in the other fields.
Msg(type, key) ==
    [type |-> type, key |-> key, number |-> 0, word |-> <<>>, old |-> <<>>,
     font |-> <<>>, name |-> "", body |-> <<>>, quick |-> FALSE]

\* LineHandler._text_message
text_message(key, include_quick_reply) ==
    [Msg("text", key) EXCEPT !.quick = include_quick_reply]

\* LineHandler._image_message for the URL of (kind, word, font)
image_message(kind, word, font) ==
    [Msg("image", kind) EXCEPT !.word = word, !.font = font]

\* the video message built from the video URL and the preview URL
video_message(word, font) ==
    [Msg("video", "v") EXCEPT !.word = word, !.font = font]

\* LineHandler._build_set_reply_text: the old word is reported when non-empty
build_set_reply_text(number, word, old_word) ==
    [Msg("text", IF old_word # <<>> THEN "set_replaced" ELSE "set_new")
        EXCEPT !.number = number, !.word = word, !.old = old_word]

\* the lines "n. word" of the list, joined with newlines
RECURSIVE ListLines(_, _)
ListLines(items, number) ==
    IF number > 10 THEN <<>>
    ELSE <<NL>> \o NumText(number) \o <<DOT, SP>>
         \o DictGet(items, number, QuizUnset) \o ListLines(items, number + 1)

\* LineHandler._build_quiz_list_text: title, ten lines, footer
\* (texts["quiz_dispatch_list"], which starts with FooterPrefix)
build_quiz_list_text(q, user_key) ==
    QuizListTitle \o ListLines(list_words(q, user_key), 1) \o <<NL>> \o FooterPrefix

(***************************************************************************)
(* Outcome of handling one event                                           *)
(***************************************************************************)

\* LineReplyClient.reply: "ok" returns True; "failed" logs and returns False
\* (missing token or HTTP status >= 400); "raise" is requests.post raising
\* (timeout, connection error), which reply() does not catch.
ReplyOutcomes == {"ok", "failed", "raise"}

\* a file written by the generator
File(kind, word) == [kind |-> kind, word |-> word]

\* quiz/settings after the event, the reply invocations in order, the files
\* produced and the files handed to image_store.cleanup, and whether an
\* exception left _handle_event
Out(q, blob, replies, produced, cleaned, raised) ==
    [quiz |-> q, settings |-> blob, replies |-> replies, produced |-> produced,
     cleaned |-> cleaned, raised |-> raised]

Call(messages, outcome) == [messages |-> messages, outcome |-> outcome]

\* self._reply(...) as the last statement before return
ReplyEnd(q, blob, messages, env) ==
    Out(q, blob, <<Call(messages, env.reply1)>>, {}, {}, env.reply1 = "raise")

NoReply(q, blob) == Out(q, blob, <<>>, {}, {}, FALSE)

Raised(q, blob) == Out(q, blob, <<>>, {}, {}, TRUE)

(***************************************************************************)
(* Direct chat handlers                                                    *)
(***************************************************************************)

\* LineHandler._get_user_key
get_user_key(source) ==
    IF source.userId # "" THEN <<"user", source.userId>>
    ELSE IF source.groupId # "" THEN <<"group", source.groupId>>
    ELSE IF source.roomId # "" THEN <<"room", source.roomId>>
    ELSE <<"unknown", "">>

\* _handle_font_command that saves a dict holding the font alone
handle_font_command_AsFontOnly(q, blob, command, user_key, env) ==
    LET nf == normalize_font_key(command.value)
    IN  IF ~nf.ok
        THEN ReplyEnd(q, blob, <<[text_message("font_error", FALSE) EXCEPT !.name = nf.err]>>, env)
        ELSE LET user_settings == DictSet(EmptyDict, "font", nf.font)
                 saved == save_user_settings(blob, user_key, user_settings, env.save)
             IN  IF ~env.save
                 THEN ReplyEnd(q, saved, <<text_message("save_failed", FALSE)>>, env)
                 ELSE ReplyEnd(q, saved,
                               <<[text_message("font_set", TRUE) EXCEPT !.font = nf.font]>>, env)

\* LineHandler._handle_font_command
handle_font_command(q, blob, command, user_key, env) ==
    LET nf == normalize_font_key(command.value)
    IN  IF ~nf.ok
        THEN ReplyEnd(q, blob, <<[text_message("font_error", FALSE) EXCEPT !.name = nf.err]>>, env)
        ELSE LET user_settings == DictSet(get_user_settings(blob, user_key), "font", nf.font)
                 saved == save_user_settings(blob, user_key, user_settings, env.save)
             IN  IF ~env.save
                 THEN ReplyEnd(q, saved, <<text_message("save_failed", FALSE)>>, env)
                 ELSE ReplyEnd(q, saved,
                               <<[text_message("font_set", TRUE) EXCEPT !.font = nf.font]>>, env)

\* the mode_common / mode_union branches of _handle_menu_commands: the result
\* of the save is not looked at
handle_mode_command(q, blob, mode, key, user_key, env) ==
    LET user_settings == DictSet(get_user_settings(blob, user_key), "quiz_mode", mode)
        saved == save_user_settings(blob, user_key, user_settings, env.save)
    IN  ReplyEnd(q, saved, <<text_message(key, FALSE)>>, env)

MenuTypes ==
    {"help", "menu_generate", "menu_register", "menu_list", "menu_settings",
     "menu_mode", "menu_font", "mode_common", "mode_union", "menu_usage",
     "invalid_word", "list", "font"}

\* LineHandler._handle_menu_commands, for a command whose type is in
\* MenuTypes (the calls that return True)
handle_menu_commands(q, blob, command, user_key, source_type, env) ==
    LET t == command.type
    IN  IF t = "help" THEN ReplyEnd(q, blob, <<text_message("usage", TRUE)>>, env)
        ELSE IF t = "menu_generate"
        THEN ReplyEnd(q, blob, <<text_message("generate_prompt", FALSE)>>, env)
        ELSE IF t = "menu_register"
        THEN ReplyEnd(q, blob, <<text_message("register_help", FALSE)>>, env)
        ELSE IF t \in {"menu_list", "list"}
        THEN IF source_type = "user"
             THEN ReplyEnd(q, blob,
                    <<[text_message("quiz_list", FALSE)
                         EXCEPT !.body = build_quiz_list_text(q, user_key)]>>, env)
             ELSE NoReply(q, blob)
        ELSE IF t = "menu_settings"
        THEN ReplyEnd(q, blob, <<text_message("settings_prompt", TRUE)>>, env)
        ELSE IF t = "menu_mode"
        THEN ReplyEnd(q, blob, <<text_message("mode_prompt", TRUE)>>, env)
        ELSE IF t = "menu_font"
        THEN ReplyEnd(q, blob, <<text_message("font_prompt", TRUE)>>, env)
        ELSE IF t = "mode_common"
        THEN handle_mode_command(q, blob, "intersection", "mode_set_common", user_key, env)
        ELSE IF t = "mode_union"
        THEN handle_mode_command(q, blob, "union", "mode_set_union", user_key, env)
        ELSE IF t = "menu_usage"
        THEN ReplyEnd(q, blob, <<text_message("usage", FALSE)>>, env)
        ELSE IF t = "invalid_word"
        THEN ReplyEnd(q, blob, <<text_message("invalid_word", FALSE)>>, env)
        ELSE handle_font_command(q, blob, command, user_key, env)

\* LineHandler._handle_user_quiz_registration for a parse result other
\* than None
handle_user_quiz_registration(q, blob, quiz_status, user_key, env) ==
    IF quiz_status.status = "raise" THEN Raised(q, blob)
    ELSE IF quiz_status.status = "invalid_number"
    THEN ReplyEnd(q, blob, <<text_message("invalid_number", FALSE)>>, env)
    ELSE IF quiz_status.status = "invalid_length"
    THEN ReplyEnd(q, blob, <<text_message("not_two_chars", FALSE)>>, env)
    ELSE IF quiz_status.status = "invalid_word"
    THEN ReplyEnd(q, blob, <<text_message("invalid_word", FALSE)>>, env)
    ELSE LET r == set_word(q, user_key, quiz_status.number, quiz_status.word)
         IN  ReplyEnd(r.quiz, blob,
                      <<build_set_reply_text(quiz_status.number, quiz_status.word, r.old)>>,
                      env)

(***************************************************************************)
(* Generator and image store, as the handler sees them                     *)
(***************************************************************************)

\* One call inside a try block: whether it returned, the exception it
\* raised otherwise, and the files it left on disk
Step(ok, label, files) == [ok |-> ok, label |-> label, files |-> files]

\* generate_images_with_union that accepts up to nine characters
generate_images_with_union_AsUpToNine(word, env) ==
    IF Len(word) < 2 \/ Len(word) > 9 THEN Step(FALSE, "word_length", {})
    ELSE IF env.gen = "raise" THEN Step(FALSE, "generate", {})
    ELSE Step(TRUE, "none",
              {File("Q", word), File("U", word)}
              \cup (IF Len(word) = 2 THEN {File("A", word)} ELSE {}))

\* ImageGenerator.generate_images_with_union: Q and U, and A for two glyphs;
\* env.gen = "raise" is a failure of font loading or of the image save
generate_images_with_union(word, env) ==
    IF Len(word) < 2 \/ Len(word) > 8 THEN Step(FALSE, "word_length", {})
    ELSE IF env.gen = "raise" THEN Step(FALSE, "generate", {})
    ELSE Step(TRUE, "none",
              {File("Q", word), File("U", word)}
              \cup (IF Len(word) = 2 THEN {File("A", word)} ELSE {}))

\* ImageGenerator.generate_images: two glyphs only
generate_images(word, env) ==
    IF Len(word) # 2 THEN Step(FALSE, "two_chars_only", {})
    ELSE IF env.gen = "raise" THEN Step(FALSE, "generate", {})
    ELSE Step(TRUE, "none", {File("Q", word), File("A", word)})

\* ImageGenerator.generate_union_video: the preview is copied before ffmpeg
\* runs, so a failing encoder (env.video = "raise") leaves the preview
generate_union_video(word, env) ==
    IF Len(word) < 3 \/ Len(word) > 8 THEN Step(FALSE, "word_length", {})
    ELSE IF env.video = "raise" THEN Step(FALSE, "ffmpeg", {File("P", word)})
    ELSE Step(TRUE, "none", {File("V", word), File("P", word)})

\* image_store.get_image_url: LocalImageStore raises on a missing or
\* non-https SERVER_FQDN, GcsImageStore when the upload fails
get_image_url(env) == Step(env.url = "ok", "image_url", {})

\* image_store.get_video_url: neither LocalImageStore nor GcsImageStore
\* defines it (AttributeError); the image store of the tests does
get_video_url(env) ==
    IF env.store \in {"local", "gcs"} THEN Step(FALSE, "no_get_video_url", {})
    ELSE Step(env.url = "ok", "video_url", {})

\* the steps of a try block up to the first one that raises
RECURSIVE RunSteps(_)
RunSteps(steps) ==
    IF steps = <<>> THEN [failed |-> FALSE, label |-> "none", files |-> {}]
    ELSE IF ~Head(steps).ok
    THEN [failed |-> TRUE, label |-> Head(steps).label, files |-> Head(steps).files]
    ELSE LET rest == RunSteps(Tail(steps))
         IN  [rest EXCEPT !.files = Head(steps).files \cup rest.files]

\* try: <steps>; self._reply(messages); image_store.cleanup(paths)
\* except Exception: self._reply([err])
\* cleanup is the statement after the reply inside the try block, so it is
\* reached only when no step and no reply raised.
TryReplyCleanup(q, blob, steps, messages, err, env) ==
    LET run == RunSteps(steps)
        e == [err EXCEPT !.name = IF err.key = "error" THEN run.label ELSE ""]
        er == [err EXCEPT !.name = IF err.key = "error" THEN "reply" ELSE ""]
    IN  IF run.failed
        THEN Out(q, blob, <<Call(<<e>>, env.reply2)>>, run.files, {},
                 env.reply2 = "raise")
        ELSE IF env.reply1 = "raise"
        THEN Out(q, blob, <<Call(messages, "raise"), Call(<<er>>, env.reply2)>>,
                 run.files, {}, env.reply2 = "raise")
        ELSE Out(q, blob, <<Call(messages, env.reply1)>>, run.files, run.files, FALSE)

\* LineHandler._handle_user_quiz_images
handle_user_quiz_images(q, blob, command, font_key, env) ==
    LET word == command.word
        label == [text_message("synth_result", FALSE) EXCEPT !.word = word]
        err == text_message("error", FALSE)
    IN  IF word = <<>> THEN ReplyEnd(q, blob, <<text_message("need_word", FALSE)>>, env)
        ELSE IF Len(word) >= 2 /\ ~is_allowed_word(word)
        THEN ReplyEnd(q, blob, <<text_message("invalid_word", FALSE)>>, env)
        ELSE IF Len(word) >= 3
        THEN TryReplyCleanup(q, blob,
                <<generate_images_with_union(word, env), get_image_url(env),
                  get_image_url(env), generate_union_video(word, env),
                  get_video_url(env), get_image_url(env)>>,
                <<label, image_message("q", word, font_key),
                  image_message("u", word, font_key), video_message(word, font_key)>>,
                err, env)
        ELSE TryReplyCleanup(q, blob,
                <<generate_images_with_union(word, env), get_image_url(env),
                  get_image_url(env), get_image_url(env)>>,
                <<label, image_message("q", word, font_key),
                  image_message("u", word, font_key), image_message("a", word, font_key)>>,
                err, env)

\* the `setting` branch of _handle_event (handler.py 141-161): user_settings
\* is the dict loaded at the start of the event
handle_setting(q, blob, command, user_key, user_settings, env) ==
    LET has_font == command.key = <<102, 111, 110, 116>>
        nf == normalize_font_key(command.value)
    IN  IF has_font /\ ~nf.ok
        THEN ReplyEnd(q, blob, <<[text_message("font_error", FALSE) EXCEPT !.name = nf.err]>>, env)
        ELSE LET us == IF has_font THEN DictSet(user_settings, "font", nf.font)
                       ELSE user_settings
                 saved == save_user_settings(blob, user_key, us, env.save)
             IN  IF ~env.save
                 THEN ReplyEnd(q, saved, <<text_message("save_failed", FALSE)>>, env)
                 ELSE ReplyEnd(q, saved,
                        <<[text_message("settings_updated", TRUE)
                             EXCEPT !.font = DictGet(us, "font", <<>>),
                                    !.name = DictGet(us, "quiz_mode", "")]>>, env)

(***************************************************************************)
(* Group and room messages                                                 *)
(***************************************************************************)

\* bot_user_id (LINE_BOT_USER_ID)
BotUserId == "bot"

\* sorted(mentionees, key=index, reverse=True): a stable insertion sort
RECURSIVE InsertDesc(_, _)
InsertDesc(m, sorted) ==
    IF sorted = <<>> THEN <<m>>
    ELSE IF Head(sorted).index >= m.index
    THEN <<Head(sorted)>> \o InsertDesc(m, Tail(sorted))
    ELSE <<m>> \o sorted

RECURSIVE SortDesc(_)
SortDesc(ms) ==
    IF ms = <<>> THEN <<>> ELSE InsertDesc(ms[Len(ms)], SortDesc(SubSeq(ms, 1, Len(ms) - 1)))

\* trimmed[:index] + trimmed[index + length:] (index is 0-based)
CutRange(t, index, length) ==
    SubSeq(t, 1, IF index < Len(t) THEN index ELSE Len(t))
    \o SubSeq(t, index + length + 1, Len(t))

RECURSIVE StripRanges(_, _)
StripRanges(t, ms) ==
    IF ms = <<>> THEN t
    ELSE StripRanges(IF Head(ms).length > 0
                     THEN CutRange(t, Head(ms).index, Head(ms).length) ELSE t,
                     Tail(ms))

\* LineHandler._strip_mention_text
strip_mention_text(text, mentionees) ==
    IF mentionees = <<>> THEN text ELSE StripRanges(text, SortDesc(mentionees))

\* LineHandler._is_bot_mentioned
is_bot_mentioned(mentionees) ==
    \E i \in 1..Len(mentionees) : mentionees[i].userId = BotUserId

\* LineHandler._parse_answer_release_number; -1 stands for the ValueError
\* of int()
parse_answer_release_number(text) ==
    LET payload == Strip(text)
    IN  IF ~StartsWith(payload, AnswerWord) THEN 0
        ELSE LET number_text == Strip(DropFirst(payload, Len(AnswerWord)))
             IN  IF ~IsDigit(number_text) THEN 0
                 ELSE IF IntRaises(number_text) THEN -1
                 ELSE IF IntOf(number_text) < 1 \/ IntOf(number_text) > 10 THEN 0
                 ELSE IntOf(number_text)

\* the unregistered_template text for a slot
unregistered_message(number) ==
    [text_message("unregistered", FALSE) EXCEPT !.number = number]

\* the answer-release branch of _handle_group_message (handler.py 463-522)
handle_answer_release(q, blob, sender_key, font_key, command_text, env) ==
    LET number == parse_answer_release_number(command_text)
    IN  IF number = -1 THEN Raised(q, blob)
        ELSE IF number = 0
        THEN ReplyEnd(q, blob, <<text_message("answer_release_format", FALSE)>>, env)
        ELSE LET stored_word == get_word(q, sender_key, number)
                 sender_font == DictGet(get_user_settings(blob, sender_key), "font", font_key)
                 err == text_message("generate_failed", FALSE)
             IN  IF stored_word = <<>>
                 THEN ReplyEnd(q, blob, <<unregistered_message(number)>>, env)
                 ELSE IF Len(stored_word) >= 3
                 THEN TryReplyCleanup(q, blob,
                        <<generate_union_video(stored_word, env), get_video_url(env),
                          get_image_url(env)>>,
                        <<video_message(stored_word, sender_font)>>, err, env)
                 ELSE TryReplyCleanup(q, blob,
                        <<generate_images_with_union(stored_word, env), get_image_url(env)>>,
                        <<image_message("a", stored_word, sender_font)>>, err, env)

\* the dispatch branch without the `if not stored_word` return
handle_dispatch_AsNoStoredCheck(q, blob, sender_key, font_key, command_text, last_token, env) ==
    LET number_text == IF command_text # <<>> THEN command_text ELSE last_token
    IN  IF IsDigit(number_text) /\ IntRaises(number_text) THEN Raised(q, blob)
        ELSE LET number == IF IsDigit(number_text) THEN IntOf(number_text) ELSE 0
             IN  IF number < 1 \/ number > 10
                 THEN ReplyEnd(q, blob, <<text_message("quiz_format", FALSE)>>, env)
                 ELSE LET stored_word == get_word(q, sender_key, number)
                          sender_settings == get_user_settings(blob, sender_key)
                          sender_font == DictGet(sender_settings, "font", font_key)
                          quiz_mode == DictGet(sender_settings, "quiz_mode", "intersection")
                          display_name == IF env.name # "" THEN env.name ELSE "mention_fallback"
                          answer_text == [text_message("quiz_answer_template", FALSE)
                                            EXCEPT !.name = display_name, !.number = number]
                          err == text_message("generate_failed", FALSE)
                      IN  IF quiz_mode = "union"
                          THEN TryReplyCleanup(q, blob,
                                 <<generate_images_with_union(stored_word, env),
                                   get_image_url(env)>>,
                                 <<text_message("quiz_prompt_union", FALSE),
                                   image_message("u", stored_word, sender_font),
                                   answer_text>>, err, env)
                          ELSE TryReplyCleanup(q, blob,
                                 <<generate_images(stored_word, env), get_image_url(env)>>,
                                 <<text_message("quiz_prompt_common", FALSE),
                                   image_message("q", stored_word, sender_font),
                                   answer_text>>, err, env)

\* the dispatch branch of _handle_group_message (handler.py 523-595);
\* env.name is the display name the profile lookup returns ("" on failure)
handle_dispatch(q, blob, sender_key, font_key, command_text, last_token, env) ==
    LET number_text == IF command_text # <<>> THEN command_text ELSE last_token
    IN  IF IsDigit(number_text) /\ IntRaises(number_text) THEN Raised(q, blob)
        ELSE LET number == IF IsDigit(number_text) THEN IntOf(number_text) ELSE 0
             IN  IF number < 1 \/ number > 10
                 THEN ReplyEnd(q, blob, <<text_message("quiz_format", FALSE)>>, env)
                 ELSE LET stored_word == get_word(q, sender_key, number)
                          sender_settings == get_user_settings(blob, sender_key)
                          sender_font == DictGet(sender_settings, "font", font_key)
                          quiz_mode == DictGet(sender_settings, "quiz_mode", "intersection")
                          display_name == IF env.name # "" THEN env.name ELSE "mention_fallback"
                          answer_text == [text_message("quiz_answer_template", FALSE)
                                            EXCEPT !.name = display_name, !.number = number]
                          err == text_message("generate_failed", FALSE)
                      IN  IF stored_word = <<>>
                          THEN ReplyEnd(q, blob, <<unregistered_message(number)>>, env)
                          ELSE IF quiz_mode = "union"
                          THEN TryReplyCleanup(q, blob,
                                 <<generate_images_with_union(stored_word, env),
                                   get_image_url(env)>>,
                                 <<text_message("quiz_prompt_union", FALSE),
                                   image_message("u", stored_word, sender_font),
                                   answer_text>>, err, env)
                          ELSE TryReplyCleanup(q, blob,
                                 <<generate_images(stored_word, env), get_image_url(env)>>,
                                 <<text_message("quiz_prompt_common", FALSE),
                                   image_message("q", stored_word, sender_font),
                                   answer_text>>, err, env)

\* LineHandler._build_mention_message
build_mention_message(result, display_name) ==
    [text_message("answer_template", FALSE)
        EXCEPT !.name = IF display_name # "" THEN display_name ELSE "mention_fallback",
               !.key = result]

\* the answer check with a comparison that ignores case
handle_answer_check_AsIgnoreCase(q, blob, target_id, last_token, env) ==
    LET quiz_status == parse_quiz_message(last_token)
    IN  IF quiz_status.status = "raise" THEN Raised(q, blob)
        ELSE IF quiz_status.status # "ok"
        THEN ReplyEnd(q, blob, <<text_message("answer_format", FALSE)>>, env)
        ELSE LET stored_word == get_word(q, <<"user", target_id>>, quiz_status.number)
             IN  IF stored_word = <<>>
                 THEN ReplyEnd(q, blob, <<unregistered_message(quiz_status.number)>>, env)
                 ELSE ReplyEnd(q, blob,
                        <<build_mention_message(
                            IF Lower(stored_word) = Lower(quiz_status.word)
                            THEN "answer_correct" ELSE "answer_incorrect",
                            env.name)>>, env)

\* the answer-check branch of _handle_group_message (handler.py 597-629)
handle_answer_check(q, blob, target_id, last_token, env) ==
    LET quiz_status == parse_quiz_message(last_token)
    IN  IF quiz_status.status = "raise" THEN Raised(q, blob)
        ELSE IF quiz_status.status # "ok"
        THEN ReplyEnd(q, blob, <<text_message("answer_format", FALSE)>>, env)
        ELSE LET stored_word == get_word(q, <<"user", target_id>>, quiz_status.number)
             IN  IF stored_word = <<>>
                 THEN ReplyEnd(q, blob, <<unregistered_message(quiz_status.number)>>, env)
                 ELSE ReplyEnd(q, blob,
                        <<build_mention_message(
                            IF stored_word = quiz_status.word
                            THEN "answer_correct" ELSE "answer_incorrect",
                            env.name)>>, env)

\* LineHandler._handle_group_message
handle_group_message(q, blob, event, user_key, font_key, env) ==
    LET mentionees == event.mentionees
        sender_id == event.source.userId
        sender_key == IF sender_id # "" THEN <<"user", sender_id>> ELSE user_key
        remaining_text == Strip(strip_mention_text(event.text, mentionees))
        tokens == SplitWs(remaining_text)
        command_tokens == IF tokens # <<>> /\ Head(Head(tokens)) = AT
                          THEN Tail(tokens) ELSE tokens
        command_text == Strip(JoinSp(command_tokens))
        last_token == IF tokens # <<>> THEN tokens[Len(tokens)] ELSE <<>>
    IN  IF mentionees = <<>> THEN NoReply(q, blob)
        ELSE IF is_bot_mentioned(mentionees)
        THEN IF StartsWith(command_text, AnswerWord)
             THEN handle_answer_release(q, blob, sender_key, font_key, command_text, env)
             ELSE handle_dispatch(q, blob, sender_key, font_key, command_text,
                                  last_token, env)
        ELSE IF Len(mentionees) = 1 /\ mentionees[1].userId # ""
                /\ mentionees[1].userId # BotUserId
        THEN handle_answer_check(q, blob, mentionees[1].userId, last_token, env)
        ELSE NoReply(q, blob)

(***************************************************************************)
(* LineHandler._handle_event                                               *)
(***************************************************************************)

\* line_default_font_key
DefaultFontKey == FontDefault

\* the direct-chat part of _handle_event (handler.py 118-251).  The second
\* `both` branch and the `font` branch (163-248) are never reached: line 137
\* and _handle_menu_commands return first.
handle_direct_message(q, blob, event, user_key, user_settings, font_key, env) ==
    LET text == event.text
        bulk_updates == parse_bulk_quiz_list(text)
        parsed == parse(text)
        font_value == Strip(DropFirst(text, Len(KwFontPrefix)))
        command == IF StartsWith(text, KwFontPrefix) /\ font_value # <<>>
                   THEN [Cmd("font") EXCEPT !.value = font_value] ELSE parsed
        quiz_status == parse_quiz_message(text)
    IN  IF bulk_updates.kind = "raise" THEN Raised(q, blob)
        ELSE IF bulk_updates.kind = "entries"
        THEN LET r == apply_bulk_quiz_update(q, user_key, bulk_updates.entries)
             IN  IF ~r.ok
                 THEN ReplyEnd(r.quiz, blob, <<text_message("bulk_update_failed", FALSE)>>, env)
                 ELSE ReplyEnd(r.quiz, blob, <<text_message("bulk_update_success", FALSE)>>, env)
        ELSE IF command.type \in MenuTypes
        THEN handle_menu_commands(q, blob, command, user_key, event.source.type, env)
        ELSE IF quiz_status.status # "none"
        THEN handle_user_quiz_registration(q, blob, quiz_status, user_key, env)
        ELSE IF command.type = "both"
        THEN handle_user_quiz_images(q, blob, command, font_key, env)
        ELSE IF command.type = "setting"
        THEN handle_setting(q, blob, command, user_key, user_settings, env)
        ELSE ReplyEnd(q, blob, <<text_message("not_two_chars", FALSE)>>, env)

\* _handle_event without the branch for group and room sources
handle_event_AsDirectOnly(q, blob, event, env) ==
    IF ~event.hasToken THEN NoReply(q, blob)
    ELSE IF event.type = "follow"
    THEN ReplyEnd(q, blob, <<text_message("welcome", TRUE)>>, env)
    ELSE IF event.type # "message" THEN NoReply(q, blob)
    ELSE IF event.msgType # "text" THEN NoReply(q, blob)
    ELSE LET user_key == get_user_key(event.source)
             user_settings == get_user_settings(blob, user_key)
             font_key == DictGet(user_settings, "font", DefaultFontKey)
         IN  handle_direct_message(q, blob, event, user_key, user_settings, font_key, env)

\* LineHandler._handle_event
handle_event(q, blob, event, env) ==
    IF ~event.hasToken THEN NoReply(q, blob)
    ELSE IF event.type = "follow"
    THEN ReplyEnd(q, blob, <<text_message("welcome", TRUE)>>, env)
    ELSE IF event.type # "message" THEN NoReply(q, blob)
    ELSE IF event.msgType # "text" THEN NoReply(q, blob)
    ELSE LET user_key == get_user_key(event.source)
             user_settings == get_user_settings(blob, user_key)
             font_key == DictGet(user_settings, "font", DefaultFontKey)
         IN  IF event.source.type \in {"group", "room"}
             THEN handle_group_message(q, blob, event, user_key, font_key, env)
             ELSE handle_direct_message(q, blob, event, user_key, user_settings,
                                        font_key, env)

(***************************************************************************)
(* ImageGenerator: the pixel routines                                      *)
(***************************************************************************)

\* the colours of image_generator/__init__.py; GREY is a pixel that the
\* anti-aliased glyph covers in part
BLACK == <<0, 0, 0, 255>>
WHITE == <<255, 255, 255, 255>>
PURPLE == <<70, 20, 190, 255>>
BLUE == <<70, 65, 225, 255>>
RED == <<230, 70, 70, 255>>
RED_SOFT == <<255, 170, 170>>
GREY == <<128, 128, 128, 255>>

\* the coordinates of an image (product(range(1024), range(1024)))
MaxPixels == 2

Coords == 1..MaxPixels

\* pix[x, y] = colour on an image of mode "RGB": the alpha band is dropped
PutRGB(colour) == SubSeq(colour, 1, 3)

\* _process_pixels with the colours of the two one-sided cases exchanged
process_pixels_AsSwappedSides(kanji1, kanji2) ==
    [q |-> [c \in Coords |->
              PutRGB(IF kanji1[c] = BLACK /\ kanji2[c] = BLACK THEN BLACK ELSE WHITE)],
     a |-> [c \in Coords |->
              PutRGB(IF kanji1[c] = BLACK
                     THEN (IF kanji2[c] = BLACK THEN PURPLE ELSE RED)
                     ELSE (IF kanji2[c] = BLACK THEN BLUE ELSE WHITE))]]

\* ImageGenerator._process_pixels: the question and the answer image
process_pixels(kanji1, kanji2) ==
    [q |-> [c \in Coords |->
              PutRGB(IF kanji1[c] = BLACK /\ kanji2[c] = BLACK THEN BLACK ELSE WHITE)],
     a |-> [c \in Coords |->
              PutRGB(IF kanji1[c] = BLACK
                     THEN (IF kanji2[c] = BLACK THEN PURPLE ELSE BLUE)
                     ELSE (IF kanji2[c] = BLACK THEN RED ELSE WHITE))]]

\* _process_union_pixels with ink where exactly one glyph has ink
process_union_pixels_AsExclusive(kanji1, kanji2) ==
    [c \in Coords |->
        PutRGB(IF (kanji1[c] = BLACK) # (kanji2[c] = BLACK) THEN BLACK ELSE WHITE)]

\* ImageGenerator._process_union_pixels
process_union_pixels(kanji1, kanji2) ==
    [c \in Coords |-> PutRGB(IF kanji1[c] = BLACK \/ kanji2[c] = BLACK THEN BLACK ELSE WHITE)]

\* _process_intersection_pixels that counts a partly covered pixel as ink
process_intersection_pixels_AsNotWhite(kanji_images) ==
    [c \in Coords |->
        PutRGB(IF \A i \in 1..Len(kanji_images) : kanji_images[i][c] # WHITE
               THEN BLACK ELSE WHITE)]

\* ImageGenerator._process_intersection_pixels
process_intersection_pixels(kanji_images) ==
    [c \in Coords |->
        PutRGB(IF \A i \in 1..Len(kanji_images) : kanji_images[i][c] = BLACK
               THEN BLACK ELSE WHITE)]

\* ImageGenerator._process_union_pixels_multi
process_union_pixels_multi(kanji_images) ==
    [c \in Coords |->
        PutRGB(IF \E i \in 1..Len(kanji_images) : kanji_images[i][c] = BLACK
               THEN BLACK ELSE WHITE)]

\* _process_step_pixels that tests the partial prefix before the full one
process_step_pixels_AsSoftFirst(kanji_images, step_index) ==
    IF step_index = 1
    THEN [c \in Coords |->
            PutRGB(IF kanji_images[1][c] = BLACK /\ kanji_images[2][c] = BLACK THEN PURPLE
                   ELSE IF kanji_images[1][c] = BLACK THEN RED
                   ELSE IF kanji_images[2][c] = BLACK THEN BLUE
                   ELSE WHITE)]
    ELSE [c \in Coords |->
            LET prefix_all_black == \A i \in 1..step_index : kanji_images[i][c] = BLACK
                prefix_any_black == \E i \in 1..step_index : kanji_images[i][c] = BLACK
                next_black == kanji_images[step_index + 1][c] = BLACK
            IN  PutRGB(IF prefix_any_black /\ ~next_black THEN RED_SOFT
                       ELSE IF prefix_all_black /\ ~next_black THEN RED
                       ELSE IF prefix_all_black /\ next_black THEN PURPLE
                       ELSE IF next_black THEN BLUE
                       ELSE WHITE)]

\* _process_step_pixels that compares only the last prefix glyph with the next
process_step_pixels_AsPairwise(kanji_images, step_index) ==
    [c \in Coords |->
        PutRGB(IF kanji_images[step_index][c] = BLACK /\ kanji_images[step_index + 1][c] = BLACK
               THEN PURPLE
               ELSE IF kanji_images[step_index][c] = BLACK THEN RED
               ELSE IF kanji_images[step_index + 1][c] = BLACK THEN BLUE
               ELSE WHITE)]

\* _process_step_pixels whose first step colours as the answer image does
process_step_pixels_AsAnswerColours(kanji_images, step_index) ==
    [c \in Coords |->
        LET prefix_all_black == \A i \in 1..step_index : kanji_images[i][c] = BLACK
            prefix_any_black == \E i \in 1..step_index : kanji_images[i][c] = BLACK
            next_black == kanji_images[step_index + 1][c] = BLACK
        IN  PutRGB(IF step_index = 1
                   THEN (IF prefix_all_black /\ next_black THEN PURPLE
                         ELSE IF prefix_all_black THEN BLUE
                         ELSE IF next_black THEN RED
                         ELSE WHITE)
                   ELSE IF prefix_all_black /\ ~next_black THEN RED
                   ELSE IF prefix_all_black /\ next_black THEN PURPLE
                   ELSE IF prefix_any_black /\ ~next_black THEN RED_SOFT
                   ELSE IF next_black THEN BLUE
                   ELSE WHITE)]

\* the loop of _process_step_pixels after the step_index == 1 branch:
\* prefix = pixels[:step_index], next_black = pixels[step_index] == BLACK
process_step_pixels_general(kanji_images, step_index) ==
    [c \in Coords |->
        LET prefix_all_black == \A i \in 1..step_index : kanji_images[i][c] = BLACK
            prefix_any_black == \E i \in 1..step_index : kanji_images[i][c] = BLACK
            next_black == kanji_images[step_index + 1][c] = BLACK
        IN  PutRGB(IF prefix_all_black /\ ~next_black THEN RED
                   ELSE IF prefix_all_black /\ next_black THEN PURPLE
                   ELSE IF prefix_any_black /\ ~next_black THEN RED_SOFT
                   ELSE IF next_black THEN BLUE
                   ELSE WHITE)]

\* ImageGenerator._process_step_pixels; pixels[idx] of the code is
\* kanji_images[idx + 1]
process_step_pixels(kanji_images, step_index) ==
    IF step_index = 1
    THEN [c \in Coords |->
            PutRGB(IF kanji_images[1][c] = BLACK /\ kanji_images[2][c] = BLACK THEN PURPLE
                   ELSE IF kanji_images[1][c] = BLACK THEN RED
                   ELSE IF kanji_images[2][c] = BLACK THEN BLUE
                   ELSE WHITE)]
    ELSE process_step_pixels_general(kanji_images, step_index)

\* generate_union_video without the intersection frame after the steps
video_frames_AsStepsOnly(kanji_images) ==
    [idx \in 1..(Len(kanji_images) - 1) |-> process_step_pixels(kanji_images, idx)]

\* the frames that generate_union_video saves as frame_001 .. frame_00N: the
\* step frames for idx in range(1, len(word)), then the intersection frame
video_frames(kanji_images) ==
    [idx \in 1..Len(kanji_images) |->
        IF idx < Len(kanji_images) THEN process_step_pixels(kanji_images, idx)
        ELSE process_intersection_pixels(kanji_images)]

\* shutil.copyfile(frame_paths[0], preview_path)
video_preview(frames) == frames[1]

(***************************************************************************)
(* ImageGenerator: font argument and file names                            *)
(***************************************************************************)

\* a font_key argument: left out (the parameter default "default"), None,
\* or a string
FontArg(kind, value) == [kind |-> kind, value |-> value]

\* normalize_font_key on the argument of a generate_* call; `not font_key`
\* holds for None and for the empty string
normalize_font_key_arg(arg) ==
    IF arg.kind = "omitted" THEN generator_normalize_font_key(FontDefault)
    ELSE IF arg.kind = "none" THEN [ok |-> TRUE, font |-> FontDefault, err |-> "none"]
    ELSE generator_normalize_font_key(arg.value)

\* _get_font_for_key: the default font is loaded at construction, a
\* registered one is read from its file (fontfile says whether it is there)
get_font_for_key(font_key, fontfile) == font_key = FontDefault \/ fontfile

\* a suffix that is written for the default key as well
font_suffix_AsAlways(normalized_font_key) == <<95>> \o normalized_font_key

\* suffix = "" if normalized_font_key == "default" else f"_{normalized_font_key}"
font_suffix(normalized_font_key) ==
    IF normalized_font_key = FontDefault THEN <<>> ELSE <<95>> \o normalized_font_key

Ext_png == <<DOT, 112, 110, 103>>
Ext_mp4 == <<DOT, 109, 112, 52>>

\* f"{kind}_{word}{suffix}.png" and f"V_{word}{suffix}.mp4"; kind is the code
\* point of Q, A, U, V or P
file_name(kind, word, normalized_font_key) ==
    <<kind>> \o <<95>> \o word \o font_suffix(normalized_font_key)
        \o (IF kind = 86 THEN Ext_mp4 ELSE Ext_png)

\* the outcome of a generate_* call: whether it returned, the normalized
\* font key, and the names of the files it wrote
Saved(ok, font, names) == [ok |-> ok, font |-> font, names |-> names]

\* the calls of a generate_* method up to the first save
font_for_call(arg, fontfile) ==
    LET nf == normalize_font_key_arg(arg)
    IN  IF ~nf.ok THEN [ok |-> FALSE, font |-> <<>>]
        ELSE IF ~get_font_for_key(nf.font, fontfile) THEN [ok |-> FALSE, font |-> <<>>]
        ELSE [ok |-> TRUE, font |-> nf.font]

\* ImageGenerator.generate_images with its font_key argument
generate_images_files(word, arg, fontfile) ==
    IF Len(word) # 2 THEN Saved(FALSE, <<>>, {})
    ELSE IF ~font_for_call(arg, fontfile).ok THEN Saved(FALSE, <<>>, {})
    ELSE Saved(TRUE, font_for_call(arg, fontfile).font,
               {file_name(81, word, font_for_call(arg, fontfile).font),
                file_name(65, word, font_for_call(arg, fontfile).font)})

\* ImageGenerator.generate_images_with_union with its font_key argument
generate_images_with_union_files(word, arg, fontfile) ==
    IF Len(word) < 2 \/ Len(word) > 8 THEN Saved(FALSE, <<>>, {})
    ELSE IF ~font_for_call(arg, fontfile).ok THEN Saved(FALSE, <<>>, {})
    ELSE Saved(TRUE, font_for_call(arg, fontfile).font,
               {file_name(81, word, font_for_call(arg, fontfile).font),
                file_name(85, word, font_for_call(arg, fontfile).font)}
               \cup (IF Len(word) = 2
                     THEN {file_name(65, word, font_for_call(arg, fontfile).font)}
                     ELSE {}))

\* ImageGenerator.generate_union_video with its font_key argument; the
\* preview is copied before ffmpeg runs, the frames are removed in `finally`
generate_union_video_files(word, arg, fontfile, ffmpeg) ==
    IF Len(word) < 3 \/ Len(word) > 8 THEN Saved(FALSE, <<>>, {})
    ELSE IF ~font_for_call(arg, fontfile).ok THEN Saved(FALSE, <<>>, {})
    ELSE Saved(ffmpeg, font_for_call(arg, fontfile).font,
               {file_name(80, word, font_for_call(arg, fontfile).font)}
               \cup (IF ffmpeg
                     THEN {file_name(86, word, font_for_call(arg, fontfile).font)}
                     ELSE {}))

(***************************************************************************)
(* Inbound events and the environment of one event                         *)
(***************************************************************************)

UserIds == {"u1", "u2"}

\* every key that _get_user_key or the group flows can build from the events
\* below
Identities == {<<"user", u>> : u \in UserIds} \cup {<<"group", "g1">>}

Source(type, userId, groupId) ==
    [type |-> type, userId |-> userId, groupId |-> groupId, roomId |-> ""]

DirectEvent(u, text) ==
    [type |-> "message", hasToken |-> TRUE, msgType |-> "text",
     source |-> Source("user", u, ""), text |-> text, mentionees |-> <<>>]

GroupEvent(u, text, mentionees) ==
    [type |-> "message", hasToken |-> TRUE, msgType |-> "text",
     source |-> Source("group", u, "g1"), text |-> text, mentionees |-> mentionees]

FollowEvent(u) ==
    [type |-> "follow", hasToken |-> TRUE, msgType |-> "",
     source |-> Source("user", u, ""), text |-> <<>>, mentionees |-> <<>>]

\* an event the handler ignores: no reply token, another event type, or a
\* message that is not text
IgnoredEvents ==
    {[FollowEvent("u1") EXCEPT !.hasToken = FALSE],
     [FollowEvent("u1") EXCEPT !.type = "unfollow"],
     [DirectEvent("u1", <<>>) EXCEPT !.msgType = "image"]}

Mention(userId, index, length) == [userId |-> userId, index |-> index, length |-> length]

\* What the collaborators do while one event is handled: the outcome of the
\* first and of the second reply call, whether save_settings succeeds,
\* whether the image generation, the URL resolution and the video encoding
\* raise, which image store is configured, and the profile display name.
Env(reply1, reply2, save, gen, url, video, store, name) ==
    [reply1 |-> reply1, reply2 |-> reply2, save |-> save, gen |-> gen,
     url |-> url, video |-> video, store |-> store, name |-> name]

OkEnv == Env("ok", "ok", TRUE, "ok", "ok", "ok", "local", "Taro")

\* sample words: ok, OK, 森林, 音楽性, 未設定 (the unset label), abcdefgh
W_ok == <<111, 107>>
W_OK == <<79, 75>>
W_shinrin == <<26862, 26519>>
W_ongakusei == <<38899, 27005, 24615>>
W_8 == <<97, 98, 99, 100, 101, 102, 103, 104>>
\* rejected words: one character, nine characters, "o!" and "0.ok"
W_1 == <<97>>
W_9 == <<97, 98, 99, 100, 101, 102, 103, 104, 105>>
W_bang == <<111, 33>>
W_dot == <<48, 46, 111, 107>>

ValidWords == {W_ok, W_OK, W_shinrin, W_ongakusei, QuizUnset, W_8}

\* "<n>.<word>"
RegText(numberText, word) == numberText \o <<DOT>> \o word

\* number texts: 1, 7, 10, 0, 11, x, empty, fullwidth 3, superscript 2,
\* " 10 "
N_1 == <<49>>
N_7 == <<55>>
N_10 == <<49, 48>>
N_0 == <<48>>
N_11 == <<49, 49>>
N_x == <<120>>
N_fw3 == <<65299>>
N_sup2 == <<178>>
N_sp10 == <<32, 49, 48, 32>>

\* the registration texts of the model
RegTexts ==
    {RegText(n, w) : n \in {N_1, N_10}, w \in {W_ok, W_shinrin}}
    \cup {RegText(N_7, QuizUnset), RegText(N_fw3, W_8), RegText(N_sp10, <<SP>> \o W_OK)}
    \cup {RegText(n, W_ok) : n \in {N_0, N_11, N_x, <<>>, N_sup2}}
    \cup {RegText(N_10, w) : w \in {W_1, W_9, W_bang, <<>>}}
    \cup {RegText(N_1, W_dot)}

\* the text of a list message whose line for slot n carries words[n]; slots
\* outside DOMAIN words have no line
RECURSIVE BulkBody(_, _)
BulkBody(words, number) ==
    IF number > 10 THEN <<>>
    ELSE (IF number \in DOMAIN words
          THEN <<NL>> \o NumText(number) \o <<DOT, SP>> \o words[number]
          ELSE <<>>)
         \o BulkBody(words, number + 1)

BulkText(words) == QuizListTitle \o BulkBody(words, 1) \o <<NL>> \o FooterPrefix

AllUnset == [n \in Slots |-> QuizUnset]

\* the bulk lists of the model: an accepted list, the list that clears every
\* slot, line 7 too short, line 7 with a disallowed character, slot 10
\* missing, the title alone, slot 3 twice, a superscript slot number
BulkGood == [AllUnset EXCEPT ![1] = W_shinrin, ![2] = W_ongakusei, ![10] = W_OK]
BulkShort7 == [BulkGood EXCEPT ![7] = W_1]
BulkBang7 == [AllUnset EXCEPT ![3] = W_ok, ![7] = W_bang]
BulkNo10 == [n \in 1..9 |-> BulkGood[n]]

BulkTexts ==
    {BulkText(BulkGood), BulkText(AllUnset), BulkText(BulkShort7),
     BulkText(BulkBang7), BulkText(BulkNo10), QuizListTitle,
     BulkText(BulkGood) \o <<NL>> \o RegText(<<51>>, W_ok),
     BulkText([n \in 1..2 |-> W_ok]) \o <<NL>> \o RegText(N_sup2, W_ok)}

\* command texts: #問題一覧, #和集合, #共通部分, #フォント mincho, font_zz,
\* #設定 font=dejavu, #ヘルプ, and "?" (no rule matches)
T_list == <<HASH>> \o KwList
T_mode_union == <<HASH>> \o KwModeUnion
T_mode_common == <<SLASH>> \o KwModeCommon
T_font_mincho == <<HASH>> \o KwFont \o <<SP, 109, 105, 110, 99, 104, 111>>
T_font_zz == KwFontPrefix \o <<122, 122>>
T_setting_font == <<HASH>> \o KwSetting \o <<SP, 102, 111, 110, 116, EQ, 100, 101, 106, 97, 118, 117>>
T_help == <<HASH, 12504, 12523, 12503>>
T_unknown == <<63>>

CommandTexts ==
    {T_list, T_mode_union, T_mode_common, T_font_mincho, T_font_zz,
     T_setting_font, T_help, T_unknown}

\* compose requests: a two-glyph and a three-glyph word
ComposeTexts == {W_shinrin, W_ongakusei}

\* "@bot <text>" sent by u with the bot mentioned at index 0
BotMentionText == <<AT, 98, 111, 116, SP>>
ToBot(u, text) == GroupEvent(u, BotMentionText \o text, <<Mention(BotUserId, 0, 4)>>)

\* "@owner <text>" sent by u with `owner` mentioned at index 0
OwnerMentionText == <<AT, 117, 120, SP>>
ToUser(u, owner, text) ==
    GroupEvent(u, OwnerMentionText \o text, <<Mention(owner, 0, 3)>>)

(***************************************************************************)
(* State                                                                   *)
(***************************************************************************)

VARIABLES
    quiz,       \* the quiz_items table: identity -> (slot -> word)
    settings,   \* the settings file: identity -> user dict
    last,       \* the event handled last, its environment and its outcome
    n,          \* the number of events handled so far
    cb,         \* the webhook request being served by handle_callback
    procs       \* the settings handlers that run in parallel

vars == <<quiz, settings, last, n, cb, procs>>

\* the events handled in one behaviour
MaxEvents == 2

EmptyQuiz == [k \in Identities |-> EmptyDict]

NoEvent == [FollowEvent("u1") EXCEPT !.type = "none"]

Last(cls, event, env, out, q, blob) ==
    [cls |-> cls, event |-> event, env |-> env, replies |-> out.replies,
     produced |-> out.produced, cleaned |-> out.cleaned, raised |-> out.raised,
     quizBefore |-> q, settingsBefore |-> blob]

NoLast == Last("init", NoEvent, OkEnv, NoReply(EmptyQuiz, EmptyDict), EmptyQuiz, EmptyDict)

\* a webhook body: bytes that do not decode to JSON, a JSON document that is
\* not an object, or an object with its list of events
Body(kind, events) == [kind |-> kind, events |-> events]

NoBody == Body("none", <<>>)

\* no webhook request has been served
IdleCb ==
    [secret |-> "", body |-> NoBody, signature |-> <<>>, envs |-> <<>>,
     handled |-> <<>>, calls |-> <<>>, result |-> "none",
     quizAtStart |-> EmptyQuiz, settingsAtStart |-> EmptyDict]

\* the handlers that may run in parallel
MaxHandlers == 2

Handlers == 1..MaxHandlers

\* a handler that has not received its event
IdleProc ==
    [pc |-> "idle", key |-> <<"user", "">>, field |-> "", value |-> <<>>,
     user_settings |-> EmptyDict, loaded |-> EmptyDict, stale |-> {}]

\* no handler runs in parallel; lastWriter is the handler that wrote the
\* settings file last (0: none), lastOf the one that did for each identity,
\* overlapped whether two handlers of one identity ever ran at the same time
NoProcs ==
    [h |-> [p \in Handlers |-> IdleProc], lastWriter |-> 0,
     lastOf |-> [k \in Identities |-> 0], overlapped |-> FALSE]

Init ==
    /\ quiz = EmptyQuiz
    /\ settings = EmptyDict
    /\ last = NoLast
    /\ n = 0
    /\ cb = IdleCb
    /\ procs = NoProcs

\* _handle_event on one inbound event
\* the effects out of one call of _handle_event become the new state
Handled(cls, event, env, out) ==
    /\ quiz' = out.quiz
    /\ settings' = out.settings
    /\ last' = Last(cls, event, env, out, quiz, settings)
    /\ n' = n + 1
    /\ UNCHANGED <<cb, procs>>

\* one call of _handle_event
Handle(cls, event, env) ==
    Handled(cls, event, env, handle_event(quiz, settings, event, env))

\* a direct message "<n>.<word>"
Register ==
    /\ n < MaxEvents
    /\ \E u \in UserIds, t \in RegTexts : Handle("register", DirectEvent(u, t), OkEnv)

\* a direct message that starts with the list title
BulkUpdate ==
    /\ n < MaxEvents
    /\ \E u \in UserIds, t \in BulkTexts : Handle("bulk", DirectEvent(u, t), OkEnv)

\* a direct message with a menu, mode, font or setting command
Command ==
    /\ n < MaxEvents
    /\ \E t \in CommandTexts, save \in BOOLEAN :
        Handle("command", DirectEvent("u1", t), [OkEnv EXCEPT !.save = save])

\* a direct message with a word to compose
Compose ==
    /\ n < MaxEvents
    /\ \E t \in ComposeTexts : Handle("compose", DirectEvent("u2", t), OkEnv)

\* a group message: dispatch of slot 1, answer release of slot 10, an answer
\* to slot 1 of u1, and a message without mention
GroupMessage ==
    /\ n < MaxEvents
    /\ \E e \in {ToBot("u1", N_1), ToBot("u2", AnswerWord \o <<SP>> \o N_10),
                 ToUser("u2", "u1", RegText(N_1, W_ok)),
                 GroupEvent("u1", RegText(N_1, W_ok), <<>>)} :
        Handle("group", e, [OkEnv EXCEPT !.store = "dummy"])

\* a follow event, or an event that is ignored
OtherEvent ==
    /\ n < MaxEvents
    /\ \E e \in IgnoredEvents \cup {FollowEvent("u2")} : Handle("other", e, OkEnv)

Next == Register \/ BulkUpdate \/ Command \/ Compose \/ GroupMessage \/ OtherEvent

Spec == Init /\ [][Next]_vars

(***************************************************************************)
(* Specification SpecMedia: the events that generate images or videos,     *)
(* with every failure of the generator, the image store and the reply      *)
(***************************************************************************)

\* the environments of a media event: at most one of generation, URL
\* resolution and video encoding fails; any image store; any outcome of the
\* first reply, and of the second one, which is only made when the first raises
MediaEnvs ==
    {Env(r[1], r[2], TRUE, f[1], f[2], f[3], st, "Taro") :
        r \in {<<"ok", "ok">>, <<"failed", "ok">>, <<"raise", "ok">>, <<"raise", "raise">>},
        f \in {<<"ok", "ok", "ok">>, <<"raise", "ok", "ok">>,
               <<"ok", "raise", "ok">>, <<"ok", "ok", "raise">>},
        st \in {"local", "gcs", "dummy"}}

\* u1 has registered 森林 in slot 1 and 音楽性 in slot 2
MediaQuiz ==
    [EmptyQuiz EXCEPT ![<<"user", "u1">>] = (1 :> W_shinrin) @@ (2 :> W_ongakusei)]

\* u1 has no settings, or has chosen the union mode
InitMedia ==
    /\ quiz = MediaQuiz
    /\ settings \in {EmptyDict, (<<"user", "u1">> :> [quiz_mode |-> "union"])}
    /\ last = NoLast
    /\ n = 0
    /\ cb = IdleCb
    /\ procs = NoProcs

\* a compose request in a direct chat
MediaCompose ==
    /\ n < MaxEvents
    /\ \E t \in ComposeTexts, env \in MediaEnvs :
        Handle("compose", DirectEvent("u1", t), env)

\* "@bot <n>" in a group: dispatch of a slot of the sender
MediaDispatch ==
    /\ n < MaxEvents
    /\ \E t \in {N_1, <<50>>, N_7}, env \in MediaEnvs :
        Handle("dispatch", ToBot("u1", t), env)

\* "@bot 答え <n>" in a group: answer release of a slot of the sender
MediaRelease ==
    /\ n < MaxEvents
    /\ \E t \in {N_1, <<50>>}, env \in MediaEnvs :
        Handle("release", ToBot("u1", AnswerWord \o <<SP>> \o t), env)

NextMedia == MediaCompose \/ MediaDispatch \/ MediaRelease

SpecMedia == InitMedia /\ [][NextMedia]_vars

(***************************************************************************)
(* Specification SpecGroup: dispatch, answer release and answer check in   *)
(* a group, over slots that are registered                                 *)
(***************************************************************************)

N_2 == <<50>>
N_3 == <<51>>

\* 音楽生, one glyph away from 音楽性
W_ongakusho == <<38899, 27005, 29983>>

\* u1 has registered ok, 音楽性 and abcdefgh in slots 1..3, u2 has OK in slot 1
GroupQuiz ==
    [EmptyQuiz EXCEPT ![<<"user", "u1">>] = (1 :> W_ok) @@ (2 :> W_ongakusei) @@ (3 :> W_8),
                      ![<<"user", "u2">>] = (1 :> W_OK)]

\* the image store of the deployment or the one of the tests; the profile
\* lookup returns a display name or fails
GroupEnvs ==
    {[OkEnv EXCEPT !.store = st, !.name = nm] : st \in {"local", "dummy"}, nm \in {"Taro", ""}}

\* the payloads sent to the owner of a slot: the stored word, the word in
\* another case, another word, an empty slot, and "o!"
AnswerTexts ==
    {RegText(N_1, W_ok), RegText(N_1, W_OK), RegText(N_2, W_ongakusei),
     RegText(N_2, W_ongakusho), RegText(N_3, W_8), RegText(N_7, W_ok),
     RegText(N_1, W_bang)}

InitGroup ==
    /\ quiz = GroupQuiz
    /\ settings = EmptyDict
    /\ last = NoLast
    /\ n = 0
    /\ cb = IdleCb
    /\ procs = NoProcs

\* a mode or font command in a direct chat
GroupSetting ==
    /\ n < MaxEvents
    /\ \E u \in UserIds, t \in {T_mode_union, T_mode_common, T_font_mincho} :
        Handle("command", DirectEvent(u, t), OkEnv)

\* "@bot <n>" in a group
GroupDispatch ==
    /\ n < MaxEvents
    /\ \E u \in UserIds, t \in {N_1, N_2, N_3, N_7, N_10}, env \in GroupEnvs :
        Handle("dispatch", ToBot(u, t), env)

\* "@bot 答え <n>" in a group
GroupRelease ==
    /\ n < MaxEvents
    /\ \E u \in UserIds, t \in {N_1, N_2, N_3, N_7}, env \in GroupEnvs :
        Handle("release", ToBot(u, AnswerWord \o <<SP>> \o t), env)

\* "@owner <n>.<word>" in a group, sent by the other participant
GroupAnswer ==
    /\ n < MaxEvents
    /\ \E u \in UserIds, owner \in UserIds, t \in AnswerTexts, env \in GroupEnvs :
        /\ u # owner
        /\ Handle("answer", ToUser(u, owner, t), env)

\* the texts of group messages that mention nobody: a registration, a mode
\* command, a font command, a list of ten unset slots, a slot number
PlainGroupTexts ==
    {RegText(N_1, W_shinrin), T_mode_union, T_font_mincho, BulkText(AllUnset), N_1}

\* a group message without mentionees
GroupPlain ==
    /\ n < MaxEvents
    /\ \E u \in UserIds, t \in PlainGroupTexts :
        Handle("plain", GroupEvent(u, t, <<>>), OkEnv)

NextGroup == GroupSetting \/ GroupDispatch \/ GroupRelease \/ GroupAnswer \/ GroupPlain

SpecGroup == InitGroup /\ [][NextGroup]_vars

(***************************************************************************)
(* Specification SpecSettings: the commands that write the settings file,  *)
(* with a save that may fail, among the events that must not write it      *)
(***************************************************************************)

\* more command texts: "#フォント MinCho ", "/フォント x", "#設定 font=zz",
\* "#設定 quiz_mode=both" and "#出題モード"
T_font_upper == <<HASH>> \o KwFont \o <<SP, 77, 105, 110, 67, 104, 111, SP>>
T_font_x == <<SLASH>> \o KwFont \o <<SP, 120>>
T_setting_zz == <<HASH>> \o KwSetting \o <<SP, 102, 111, 110, 116, EQ, 122, 122>>
T_setting_mode ==
    <<HASH>> \o KwSetting
    \o <<SP, 113, 117, 105, 122, 95, 109, 111, 100, 101, EQ, 98, 111, 116, 104>>
T_menu_mode == <<HASH>> \o KwMenuMode

\* keywords without the prefix: "help", "和集合" and "フォント mincho"
B_help == <<104, 101, 108, 112>>
B_mode_union == KwModeUnion
B_font_mincho == KwFont \o <<SP, 109, 105, 110, 99, 104, 111>>

SettingTexts ==
    {T_mode_union, T_mode_common, T_font_mincho, T_font_upper, T_font_zz, T_font_x,
     T_setting_font, T_setting_zz, T_setting_mode}

BareTexts == {B_help, B_mode_union, B_font_mincho}

\* direct texts that are no settings command: a compose request, the list,
\* a registration, a bulk list, help, a menu prompt and an unrecognised text
PlainTexts ==
    {W_shinrin, T_list, RegText(N_1, W_ok), BulkText(BulkGood), T_help, T_menu_mode,
     T_unknown}

\* group messages that carry command texts, a dispatch, an answer, and a
\* follow event
BystanderEvents ==
    {ToBot("u1", N_1), ToBot("u1", T_mode_union), ToUser("u2", "u1", RegText(N_1, W_ok)),
     ToUser("u2", "u1", T_font_mincho), GroupEvent("u1", T_font_mincho, <<>>),
     FollowEvent("u2")}

InitSettings ==
    /\ quiz = EmptyQuiz
    /\ settings = EmptyDict
    /\ last = NoLast
    /\ n = 0
    /\ cb = IdleCb
    /\ procs = NoProcs

\* a mode, font or setting command in a direct chat
SettingsCommand ==
    /\ n < MaxEvents
    /\ \E u \in UserIds, t \in SettingTexts, save \in BOOLEAN :
        Handle("command", DirectEvent(u, t), [OkEnv EXCEPT !.save = save])

\* a keyword sent without its prefix in a direct chat
BareKeyword ==
    /\ n < MaxEvents
    /\ \E u \in UserIds, t \in BareTexts :
        Handle("bare", DirectEvent(u, t), [OkEnv EXCEPT !.store = "dummy"])

\* any other direct text
PlainText ==
    /\ n < MaxEvents
    /\ \E u \in UserIds, t \in PlainTexts :
        Handle("plain", DirectEvent(u, t), [OkEnv EXCEPT !.store = "dummy"])

\* a group message or a follow event
Bystander ==
    /\ n < MaxEvents
    /\ \E e \in BystanderEvents : Handle("bystander", e, [OkEnv EXCEPT !.store = "dummy"])

NextSettings == SettingsCommand \/ BareKeyword \/ PlainText \/ Bystander

SpecSettings == InitSettings /\ [][NextSettings]_vars

(***************************************************************************)
(* Specification SpecParse: LineCommandParser.parse on texts around the    *)
(* boundaries of the word rule                                             *)
(***************************************************************************)

\* the longest text of SpecParse
MaxTextLen == 9

\* the code points next to and at the ends of the ranges of _is_allowed_char,
\* and the space, ".", "#" and "/"
BoundaryChars ==
    {47, 48, 57, 58, 64, 65, 90, 91, 96, 97, 122, 123,
     12352, 12353, 12447, 12448, 12543, 12544, 19967, 19968, 40959, 40960,
     SP, DOT, HASH}

\* the text of len characters that is "a" everywhere but c at pos
Fill(len, pos, c) == [i \in 1..len |-> IF i = pos THEN c ELSE 97]

\* the texts parsed: every Fill, and texts that match a keyword rule
\* "question ok" and "answer ok", the keywords question and answer of the
\* handler tests followed by a word, bare and after a prefix
T_question_ok == <<113, 117, 101, 115, 116, 105, 111, 110, SP>> \o W_ok
T_answer_ok == <<97, 110, 115, 119, 101, 114, SP>> \o W_ok
T_slash_question_ok == <<SLASH>> \o T_question_ok
T_hash_answer_ok == <<HASH>> \o T_answer_ok

ParseTexts ==
    {Fill(len, pos, c) : len \in 0..MaxTextLen, pos \in 1..MaxTextLen, c \in BoundaryChars}
    \cup {T_help, T_list, T_mode_union, T_font_mincho, T_font_zz, T_setting_font, T_menu_mode}
    \cup {T_question_ok, T_answer_ok, T_slash_question_ok, T_hash_answer_ok}

InitParse ==
    /\ quiz = EmptyQuiz
    /\ settings = EmptyDict
    /\ \E t \in ParseTexts : last = [NoLast EXCEPT !.cls = "text", !.event = DirectEvent("u1", t)]
    /\ n = 0
    /\ cb = IdleCb
    /\ procs = NoProcs

\* self.parser.parse(text)
ParseText ==
    /\ n = 0
    /\ last.cls = "text"
    /\ last' = [cls |-> "parsed", event |-> last.event, command |-> parse(last.event.text)]
    /\ n' = 1
    /\ UNCHANGED <<quiz, settings, cb, procs>>

\* the text arrives as a direct message
HandleText ==
    /\ n = 0
    /\ last.cls = "text"
    /\ Handle("handled", last.event, [OkEnv EXCEPT !.store = "dummy"])

\* the generator working, and failing at a font or at a save
GeneratorEnvs == {OkEnv, [OkEnv EXCEPT !.gen = "raise"], [OkEnv EXCEPT !.video = "raise"]}

\* the outcome of a generator call with the text as the word
Generated(cls, env, step) ==
    /\ last' = [cls |-> cls, word |-> last.event.text, env |-> env, step |-> step]
    /\ n' = 1
    /\ UNCHANGED <<quiz, settings, cb, procs>>

\* the three public operations of the generator are called with the text
GenerateWithUnion ==
    /\ n = 0
    /\ last.cls = "text"
    /\ \E env \in GeneratorEnvs :
         Generated("images_with_union", env, generate_images_with_union(last.event.text, env))

GenerateImages ==
    /\ n = 0
    /\ last.cls = "text"
    /\ \E env \in GeneratorEnvs :
         Generated("images", env, generate_images(last.event.text, env))

GenerateUnionVideo ==
    /\ n = 0
    /\ last.cls = "text"
    /\ \E env \in GeneratorEnvs :
         Generated("union_video", env, generate_union_video(last.event.text, env))

NextParse ==
    ParseText \/ HandleText \/ GenerateWithUnion \/ GenerateImages \/ GenerateUnionVideo

SpecParse == InitParse /\ [][NextParse]_vars

(***************************************************************************)
(* Specification SpecImage: the pixel routines on every list of glyph      *)
(* bitmaps                                                                 *)
(***************************************************************************)

\* the longest glyph list of SpecImage
MaxGlyphs == 4

\* the bitmaps of _create_kanji_image: every pattern of ink and background,
\* and one whose first pixel is covered in part
Bitmaps ==
    [Coords -> {BLACK, WHITE}] \cup {[c \in Coords |-> IF c = 1 THEN GREY ELSE BLACK]}

GlyphLists == UNION {[1..k -> Bitmaps] : k \in 2..MaxGlyphs}

InitImage ==
    /\ quiz = EmptyQuiz
    /\ settings = EmptyDict
    /\ \E gs \in GlyphLists : last = [cls |-> "glyphs", images |-> gs]
    /\ n = 0
    /\ cb = IdleCb
    /\ procs = NoProcs

\* the outcome of a generator call on the glyphs drawn
Rendered(cls, out) ==
    /\ last' = [cls |-> cls, images |-> last.images, out |-> out]
    /\ n' = 1
    /\ UNCHANGED <<quiz, settings, cb, procs>>

\* generate_images: the pair routine on two glyphs
RenderPair ==
    /\ n = 0
    /\ Len(last.images) = 2
    /\ Rendered("pair", process_pixels(last.images[1], last.images[2]))

\* generate_images_with_union: the pair and the two-glyph union routine for
\* two glyphs, the intersection and the multi-glyph union routine for more
RenderWithUnion ==
    /\ n = 0
    /\ Rendered("with_union",
                IF Len(last.images) = 2
                THEN [q |-> process_pixels(last.images[1], last.images[2]).q,
                      a |-> process_pixels(last.images[1], last.images[2]).a,
                      u |-> process_union_pixels(last.images[1], last.images[2])]
                ELSE [q |-> process_intersection_pixels(last.images),
                      a |-> <<>>,
                      u |-> process_union_pixels_multi(last.images)])

\* generate_union_video: the frames and the preview for three glyphs or more
RenderVideo ==
    /\ n = 0
    /\ Len(last.images) >= 3
    /\ Rendered("video",
                [frames |-> video_frames(last.images),
                 preview |-> video_preview(video_frames(last.images))])

NextImage == RenderPair \/ RenderWithUnion \/ RenderVideo

SpecImage == InitImage /\ [][NextImage]_vars

(***************************************************************************)
(* Specification SpecCallback: webhook requests served by handle_callback  *)
(***************************************************************************)

\* base64(HMAC-SHA256(secret, body)), kept symbolic
Mac(secret, body) == <<"mac", secret, body>>

\* verify_signature
verify_signature(secret, body, signature) ==
    IF secret = "" THEN FALSE ELSE Mac(secret, body) = signature

\* LineReplyClient.reply writes an error to the log when the API answers with
\* a status of 400 or more; an exception of requests.post passes through it
reply_logs(outcome) == outcome = "failed"

\* the for loop of handle_callback from event i on; an exception of
\* _handle_event ends the loop and the callback
RECURSIVE handle_events(_, _, _, _, _, _, _)

\* the loop after self._handle_event(event) has had the effects out
after_event(out, events, envs, i, handled, calls) ==
    IF out.raised
    THEN [quiz |-> out.quiz, settings |-> out.settings,
          handled |-> Append(handled, events[i]),
          calls |-> calls \o out.replies, result |-> "exception"]
    ELSE handle_events(out.quiz, out.settings, events, envs, i + 1,
                       Append(handled, events[i]), calls \o out.replies)

handle_events(q, blob, events, envs, i, handled, calls) ==
    IF i > Len(events)
    THEN [quiz |-> q, settings |-> blob, handled |-> handled, calls |-> calls,
          result |-> "200"]
    ELSE after_event(handle_event(q, blob, events[i], envs[i]),
                     events, envs, i, handled, calls)

\* LineHandler.handle_callback; result is the HTTP status it returns, or
\* "exception" when an exception leaves it
handle_callback(secret, q, blob, body, signature, envs) ==
    IF ~verify_signature(secret, body, signature)
    THEN [quiz |-> q, settings |-> blob, handled |-> <<>>, calls |-> <<>>,
          result |-> "403"]
    ELSE IF body.kind = "malformed"
    THEN [quiz |-> q, settings |-> blob, handled |-> <<>>, calls |-> <<>>,
          result |-> "400"]
    ELSE IF body.kind = "array"
    THEN [quiz |-> q, settings |-> blob, handled |-> <<>>, calls |-> <<>>,
          result |-> "exception"]
    ELSE handle_events(q, blob, body.events, envs, 1, <<>>, <<>>)

\* the events of the webhook bodies
CbEvents ==
    {FollowEvent("u1"), DirectEvent("u1", RegText(N_1, W_ok)),
     DirectEvent("u1", T_help), [FollowEvent("u1") EXCEPT !.hasToken = FALSE]}

\* while a webhook is served only the reply API is let fail
CbEnvs == {Env(r, "ok", TRUE, "ok", "ok", "ok", "local", "Taro") : r \in ReplyOutcomes}

\* the sequences over S of length k
RECURSIVE SeqsOfLen(_, _)
SeqsOfLen(S, k) ==
    IF k = 0 THEN {<<>>}
    ELSE {Append(sq, x) : sq \in SeqsOfLen(S, k - 1), x \in S}

\* the signatures a request may carry: the right one, one made with another
\* secret, one made with the empty secret, and none
Signatures(body) == {Mac("secret", body), Mac("other", body), Mac("", body), <<>>}

InitCallback ==
    /\ quiz = EmptyQuiz
    /\ settings = EmptyDict
    /\ last = NoLast
    /\ n = 0
    /\ cb \in {[IdleCb EXCEPT !.secret = sec] : sec \in {"", "secret"}}
    /\ procs = NoProcs

\* one webhook request, served from its arrival to the response
\* the outcome res of one call of handle_callback becomes the new state
Served(body, signature, envs, res) ==
    /\ quiz' = res.quiz
    /\ settings' = res.settings
    /\ cb' = [secret |-> cb.secret, body |-> body, signature |-> signature,
              envs |-> envs, handled |-> res.handled, calls |-> res.calls,
              result |-> res.result, quizAtStart |-> quiz,
              settingsAtStart |-> settings]
    /\ n' = n + Len(body.events)
    /\ UNCHANGED <<last, procs>>

Callback(body, signature, envs) ==
    Served(body, signature, envs,
           handle_callback(cb.secret, quiz, settings, body, signature, envs))

\* a request whose body is a JSON object with a list of events
CallbackEvents ==
    \E k \in 0..(MaxEvents - n) :
        \E events \in SeqsOfLen(CbEvents, k), envs \in SeqsOfLen(CbEnvs, k) :
            \E signature \in Signatures(Body("object", events)) :
                Callback(Body("object", events), signature, envs)

\* a request whose body is not a JSON object
CallbackOther ==
    /\ n <= MaxEvents
    /\ \E kind \in {"malformed", "array"} :
        \E signature \in Signatures(Body(kind, <<>>)) :
            Callback(Body(kind, <<>>), signature, <<>>)

NextCallback == CallbackEvents \/ CallbackOther

SpecCallback == InitCallback /\ [][NextCallback]_vars

(***************************************************************************)
(* Specification SpecConc: settings commands of direct chats handled by    *)
(* handlers that run in parallel.  A handler is interleaved with the       *)
(* others at its accesses to the settings file: the load of                *)
(* _get_user_settings, the load of _save_user_settings, the write of       *)
(* save_settings.  Each access to the file is taken as atomic.             *)
(***************************************************************************)

ConcTexts == {T_mode_union, T_mode_common, T_font_mincho}

\* the key and the value a settings command puts into the user dict
\* (handler.py 299, 305, 337); the value is a string for quiz_mode and a
\* font key for font
ConcUpdate(command) ==
    IF command.type = "mode_common" THEN [field |-> "quiz_mode", value |-> "intersection"]
    ELSE IF command.type = "mode_union" THEN [field |-> "quiz_mode", value |-> "union"]
    ELSE [field |-> "font", value |-> normalize_font_key(command.value).font]

InitConc ==
    /\ quiz = EmptyQuiz
    /\ settings = EmptyDict
    /\ last = NoLast
    /\ n = 0
    /\ cb = IdleCb
    /\ procs = NoProcs

\* handler p receives a settings command of a user and runs up to and
\* including user_settings = self._get_user_settings(user_key) and the
\* assignment to user_settings[...]
ConcSnapshot(p) ==
    /\ procs.h[p].pc = "idle"
    /\ \E userId \in UserIds, text \in ConcTexts :
        LET event == DirectEvent(userId, text)
            user_key == get_user_key(event.source)
            command == parse(event.text)
            up == ConcUpdate(command)
            user_settings == DictSet(get_user_settings(settings, user_key),
                                     up.field, up.value)
            running == \E o \in Handlers \ {p} :
                          /\ procs.h[o].pc \in {"snapshot", "loaded", "written"}
                          /\ procs.h[o].key = user_key
        IN  /\ command.type \in {"mode_common", "mode_union", "font"}
            /\ procs' = [procs EXCEPT
                    !.h[p] = [pc |-> "snapshot", key |-> user_key,
                              field |-> up.field, value |-> up.value,
                              user_settings |-> user_settings,
                              loaded |-> EmptyDict, stale |-> {}],
                    !.overlapped = @ \/ running]
    /\ UNCHANGED <<quiz, settings, last, n, cb>>

\* _save_user_settings: settings = self.settings_store.load_settings()
ConcLoad(p) ==
    /\ procs.h[p].pc = "snapshot"
    /\ procs' = [procs EXCEPT !.h[p].pc = "loaded",
                              !.h[p].loaded = load_settings(settings)]
    /\ UNCHANGED <<quiz, settings, last, n, cb>>

\* _save_user_settings: settings[user_key] = user_settings and
\* save_settings(settings).  The handlers that hold a snapshot taken before
\* this write are marked stale with respect to p.
ConcWrite(p) ==
    /\ procs.h[p].pc = "loaded"
    /\ settings' = save_settings(settings,
                                 put_user_settings(procs.h[p].loaded, procs.h[p].key,
                                                   procs.h[p].user_settings),
                                 TRUE)
    /\ procs' = [procs EXCEPT
            !.h = [o \in Handlers |->
                     IF o = p THEN [procs.h[p] EXCEPT !.pc = "written"]
                     ELSE IF procs.h[o].pc \in {"snapshot", "loaded"}
                     THEN [procs.h[o] EXCEPT !.stale = @ \cup {p}]
                     ELSE procs.h[o]],
            !.lastWriter = p,
            !.lastOf[procs.h[p].key] = p]
    /\ UNCHANGED <<quiz, last, n, cb>>

\* the reply that acknowledges the command
ConcReply(p) ==
    /\ procs.h[p].pc = "written"
    /\ procs' = [procs EXCEPT !.h[p].pc = "done"]
    /\ UNCHANGED <<quiz, settings, last, n, cb>>

NextConc ==
    \E p \in Handlers : ConcSnapshot(p) \/ ConcLoad(p) \/ ConcWrite(p) \/ ConcReply(p)

SpecConc == InitConc /\ [][NextConc]_vars

(***************************************************************************)
(* Properties of the quiz slots (specification Spec)                       *)
(***************************************************************************)

\* the allow-list of the specification: Hiragana, Katakana, CJK ideographs,
\* ASCII digits and ASCII letters
AllowListed(c) ==
    \/ c \in 12353..12447
    \/ c \in 12448..12543
    \/ c \in 19968..40959
    \/ c \in 48..57
    \/ c \in (65..90) \cup (97..122)

WordOK(w) == Len(w) >= 2 /\ Len(w) <= 8 /\ \A i \in 1..Len(w) : AllowListed(w[i])

\* the identity of the sender of the last event
Sender == <<"user", last.event.source.userId>>

\* the word in a slot, "" when the slot is empty
SlotOf(q, k, s) == IF s \in DOMAIN q[k] THEN q[k][s] ELSE <<>>

\* the lines "N. word" of the last (bulk) message as a dict
BatchOf(text) == parse_bulk_quiz_list(text).entries

\* a batch is rejected when a slot is missing or a word fails validation
BatchRejected(text) ==
    \E s \in Slots :
        \/ s \notin DOMAIN BatchOf(text)
        \/ BatchOf(text)[s] # QuizUnset /\ ~WordOK(BatchOf(text)[s])

\* C1: a bulk list update with a missing slot or a line that fails validation
\* leaves every slot 1..10 of the sender as it was before the event.
C1_BulkAllOrNothing ==
    (last.cls = "bulk" /\ parse_bulk_quiz_list(last.event.text).kind = "entries"
        /\ BatchRejected(last.event.text))
    => \A s \in Slots : SlotOf(quiz, Sender, s) = SlotOf(last.quizBefore, Sender, s)

\* C2: every occupied quiz slot has a number in 1..10 and holds a word of
\* 2..8 allow-listed characters.
C2_SlotsHoldValidWords ==
    \A k \in DOMAIN quiz : \A s \in DOMAIN quiz[k] : s \in 1..10 /\ WordOK(quiz[k][s])

\* C2 witness: slots are occupied, and the last event tried to store a word
\* with a disallowed character (by registration or by bulk update)
C2_Witness ==
    /\ \E k \in DOMAIN quiz : quiz[k] # EmptyDict
    /\ \/ last.cls = "register" /\ last.event.text = RegText(N_10, W_bang)
       \/ last.cls = "bulk" /\ last.event.text = BulkText(BulkBang7)

\* C3: a registration into slot n reports the word the slot held before (none
\* when it was empty), leaves the new word in the slot and changes no other
\* (owner, slot) cell.
C3_RegisterReportsOld ==
    LET pq == parse_quiz_message(last.event.text)
    IN  (last.cls = "register" /\ pq.status = "ok")
        => /\ Len(last.replies) = 1
           /\ Len(last.replies[1].messages) = 1
           /\ LET m == last.replies[1].messages[1]
              IN  /\ m.number = pq.number
                  /\ m.word = pq.word
                  /\ m.old = SlotOf(last.quizBefore, Sender, pq.number)
                  /\ m.key = IF SlotOf(last.quizBefore, Sender, pq.number) = <<>>
                             THEN "set_new" ELSE "set_replaced"
           /\ SlotOf(quiz, Sender, pq.number) = pq.word
           /\ \A k \in Identities : \A s \in Slots :
                <<k, s>> # <<Sender, pq.number>>
                    => SlotOf(quiz, k, s) = SlotOf(last.quizBefore, k, s)

\* C3 witness: a registration that replaced a different word
C3_Witness ==
    /\ last.cls = "register"
    /\ Len(last.replies) = 1
    /\ last.replies[1].messages[1].key = "set_replaced"
    /\ last.replies[1].messages[1].old # last.replies[1].messages[1].word

\* what the specification expects of a direct text "<n>.<word>": the slot is
\* written only for a number 1..10 and a valid word, else one of three notices
NumberOf(text) == Strip(SplitFirst(Strip(text), DOT)[1])
WordOf(text) == Strip(SplitFirst(Strip(text), DOT)[2])
IsNumber1To10(t) ==
    /\ t # <<>>
    /\ \A i \in 1..Len(t) : t[i] \in DecimalChars
    /\ IntOf(t) >= 1 /\ IntOf(t) <= 10

ExpectedNotice(text) ==
    IF ~IsNumber1To10(NumberOf(text)) THEN "invalid_number"
    ELSE IF Len(WordOf(text)) < 2 \/ Len(WordOf(text)) > 8 THEN "not_two_chars"
    ELSE IF ~WordOK(WordOf(text)) THEN "invalid_word"
    ELSE "write"

\* C4: a direct text "<n>.<word>" writes slot n only when the text before the
\* first "." is a number 1..10 and the word is valid; otherwise no slot is
\* written and the reply is the matching notice.
C4_RegistrationOrNotice ==
    last.cls = "register"
    => IF ExpectedNotice(last.event.text) = "write"
       THEN SlotOf(quiz, Sender, IntOf(NumberOf(last.event.text))) = WordOf(last.event.text)
       ELSE /\ quiz = last.quizBefore
            /\ Len(last.replies) = 1
            /\ Len(last.replies[1].messages) = 1
            /\ last.replies[1].messages[1].key = ExpectedNotice(last.event.text)

(***************************************************************************)
(* Properties of the media events (specification SpecMedia)                *)
(***************************************************************************)

\* C7: every temporary file produced while a compose, dispatch or
\* answer-release event is handled has been handed to the cleanup of the
\* image store when the handling ends.
C7_TempFilesCleaned ==
    last.cls \in {"compose", "dispatch", "release"} => last.produced \subseteq last.cleaned

\* C8: reply delivery is invoked at most once per inbound event.
C8_AtMostOneReply == Len(last.replies) <= 1

(***************************************************************************)
(* Properties of the webhook callback (specification SpecCallback)         *)
(***************************************************************************)

CbServed == cb.result # "none"

CbSignatureValid == verify_signature(cb.secret, cb.body, cb.signature)

\* the request was refused before any event was looked at
CbUntouched ==
    /\ cb.handled = <<>>
    /\ cb.calls = <<>>
    /\ quiz = cb.quizAtStart
    /\ settings = cb.settingsAtStart

\* C9: a request with a valid signature and a body that parses has every
\* event of its batch processed and is answered with 200 even when the
\* delivery of a reply fails; the failure is logged and never leaves the
\* callback as an exception or a status other than 200.
C9_ReplyFailureSwallowed ==
    (/\ CbServed
     /\ CbSignatureValid
     /\ cb.body.kind = "object"
     /\ \E i \in 1..Len(cb.calls) : cb.calls[i].outcome # "ok")
    => /\ cb.result = "200"
       /\ cb.handled = cb.body.events
       /\ \A i \in 1..Len(cb.calls) :
            cb.calls[i].outcome # "ok" => reply_logs(cb.calls[i].outcome)

\* C10: a request whose signature does not verify is answered with 403, and
\* one whose body does not parse with 400, in both cases without any event
\* handled; every other request has its events handled in the order of the
\* payload and is answered with 200.
C10_CallbackStatus ==
    CbServed =>
        IF ~CbSignatureValid THEN cb.result = "403" /\ CbUntouched
        ELSE IF cb.body.kind = "malformed" THEN cb.result = "400" /\ CbUntouched
        ELSE cb.result = "200" /\ cb.handled = cb.body.events

(***************************************************************************)
(* Properties of parallel settings handlers (specification SpecConc)       *)
(***************************************************************************)

\* the user dict d holds value v under key f
UpdateHeld(d, f, v) == f \in DOMAIN d /\ d[f] = v

\* the persisted user dict of an identity
Persisted(key) == DictGet(settings, key, EmptyDict)

\* handler q, the last to write the file, changed a key of the same identity
\* as p, another key than p, from a snapshot that was taken before p wrote
\* and that does not hold the value p set; both commands are acknowledged
ClobberedBy(p, q) ==
    /\ p # q
    /\ procs.h[p].pc = "done"
    /\ procs.h[q].pc = "done"
    /\ procs.h[p].key = procs.h[q].key
    /\ procs.h[p].field # procs.h[q].field
    /\ procs.lastWriter = q
    /\ p \in procs.h[q].stale
    /\ ~UpdateHeld(procs.h[q].user_settings, procs.h[p].field, procs.h[p].value)

\* C5: two events of the same identity that change different settings keys
\* and are handled in parallel can lose an update: when the handler that
\* writes last took its snapshot before the other one wrote, the other's
\* update is absent from the persisted settings although both events were
\* acknowledged.
C5_StaleSnapshotClobbers ==
    \A p \in Handlers, q \in Handlers :
        ClobberedBy(p, q) =>
            ~UpdateHeld(Persisted(procs.h[p].key), procs.h[p].field, procs.h[p].value)

C5_Witness ==
    \E p \in Handlers, q \in Handlers :
        /\ ClobberedBy(p, q)
        /\ UpdateHeld(Persisted(procs.h[q].key), procs.h[q].field, procs.h[q].value)
        /\ ~UpdateHeld(Persisted(procs.h[p].key), procs.h[p].field, procs.h[p].value)

\* C6: when the handlers of each single identity never run at the same
\* time, no update is lost across identities: once all handlers are done,
\* the persisted settings of every identity hold the last update that
\* identity made.
C6_NoLostUpdateAcrossIdentities ==
    (/\ \A p \in Handlers : procs.h[p].pc \in {"idle", "done"}
     /\ ~procs.overlapped)
    => \A key \in Identities :
          procs.lastOf[key] # 0 =>
              UpdateHeld(Persisted(key), procs.h[procs.lastOf[key]].field,
                         procs.h[procs.lastOf[key]].value)

(***************************************************************************)
(* Properties of the group flows (specification SpecGroup)                 *)
(***************************************************************************)

\* the settings the sender had persisted when the last event arrived
SenderSettings ==
    IF Sender \in DOMAIN last.settingsBefore THEN last.settingsBefore[Sender] ELSE EmptyDict

ModeOf(d) == IF "quiz_mode" \in DOMAIN d THEN d["quiz_mode"] ELSE "intersection"

FontOf(d) == IF "font" \in DOMAIN d THEN d["font"] ELSE FontDefault

\* the display name a reply uses: the profile name, else the fallback
NameOf(env) == IF env.name # "" THEN env.name ELSE "mention_fallback"

\* the last event is "@bot <s>" sent in the group
DispatchOf(s) == last.cls = "dispatch" /\ last.event.text = BotMentionText \o NumText(s)

\* the reply of a dispatch of word in slot s: prompt, image and answer template
DispatchReply(s, word) ==
    <<text_message(IF ModeOf(SenderSettings) = "union"
                   THEN "quiz_prompt_union" ELSE "quiz_prompt_common", FALSE),
      image_message(IF ModeOf(SenderSettings) = "union" THEN "u" ELSE "q",
                    word, FontOf(SenderSettings)),
      [text_message("quiz_answer_template", FALSE)
          EXCEPT !.name = NameOf(last.env), !.number = s]>>

\* C11: the dispatch of a registered slot replies with the prompt, the image
\* and the answer template of the sender's persisted mode and font, for every
\* registered word of 2..8 characters.
C11_DispatchByMode ==
    \A s \in Slots :
        DispatchOf(s) /\ SlotOf(last.quizBefore, Sender, s) # <<>>
        => /\ Len(last.replies) = 1
           /\ last.replies[1].messages
                = DispatchReply(s, SlotOf(last.quizBefore, Sender, s))

\* C12: the dispatch of a slot 1..10 at which the sender has nothing
\* registered replies with exactly the one "slot N unregistered" text,
\* produces no image or video, and changes neither the slots nor the settings.
C12_DispatchUnregistered ==
    \A s \in Slots :
        DispatchOf(s) /\ SlotOf(last.quizBefore, Sender, s) = <<>>
        => /\ last.replies
                = <<Call(<<[Msg("text", "unregistered") EXCEPT !.number = s]>>, "ok")>>
           /\ last.produced = {}
           /\ quiz = last.quizBefore
           /\ settings = last.settingsBefore

\* an empty slot of the sender has been dispatched and the one text sent
C12_Witness ==
    \E s \in Slots :
        /\ DispatchOf(s) /\ SlotOf(last.quizBefore, Sender, s) = <<>>
        /\ Len(last.replies) = 1
        /\ last.replies[1].messages[1].key = "unregistered"

\* the last event is "@bot 答え <s>" sent in the group
ReleaseOf(s) ==
    /\ last.cls = "release"
    /\ last.event.text = BotMentionText \o AnswerWord \o <<SP>> \o NumText(s)

\* the settings file with the quiz_mode of one identity set to mode
WithMode(blob, key, mode) ==
    [k \in (DOMAIN blob) \cup {key} |->
        IF k = key
        THEN [f \in (DOMAIN DictGet(blob, key, EmptyDict)) \cup {"quiz_mode"} |->
                IF f = "quiz_mode" THEN mode ELSE blob[key][f]]
        ELSE blob[k]]

\* the replies of the last event had the sender persisted the given quiz_mode
RepliesUnderMode(mode) ==
    handle_event(last.quizBefore, WithMode(last.settingsBefore, Sender, mode),
                 last.event, last.env).replies

\* the full answer of a word: the answer image for two characters, the
\* step-reveal video with its preview for more
AnswerReveal(word) ==
    IF Len(word) = 2 THEN image_message("a", word, FontOf(SenderSettings))
    ELSE video_message(word, FontOf(SenderSettings))

\* C13: the answer release of a registered slot does not depend on the
\* sender's quiz_mode: the reply is the same under "intersection" and under
\* "union", namely the answer image of a 2-character word and the step-reveal
\* video with preview of a 3..8-character word.
C13_ReleaseIgnoresMode ==
    \A s \in Slots :
        ReleaseOf(s) /\ SlotOf(last.quizBefore, Sender, s) # <<>>
        => /\ \A mode \in {"intersection", "union"} : RepliesUnderMode(mode) = last.replies
           /\ last.replies
                = <<Call(<<AnswerReveal(SlotOf(last.quizBefore, Sender, s))>>, "ok")>>

\* the words submitted as answers in SpecGroup
AnswerWords == {W_ok, W_OK, W_ongakusei, W_ongakusho, W_8, W_bang}

\* the last event is "@owner <s>.<w>" sent in the group with only owner
\* mentioned
AnswerOf(owner, s, w) ==
    /\ last.cls = "answer"
    /\ last.event.text = OwnerMentionText \o RegText(NumText(s), w)
    /\ Len(last.event.mentionees) = 1
    /\ last.event.mentionees[1].userId = owner

\* the message that names the answerer and carries the verdict
Verdict(result) == [Msg("text", result) EXCEPT !.name = NameOf(last.env)]

C15_InvalidWordAnswer ==
    \A owner \in UserIds, s \in Slots, w \in AnswerWords :
        /\ AnswerOf(owner, s, w)
        /\ Len(w) >= 2 /\ Len(w) <= 8
        /\ \E i \in 1..Len(w) : ~AllowListed(w[i])
        => /\ Len(last.replies) = 1
           /\ Len(last.replies[1].messages) = 1
           /\ last.replies[1].messages[1].key = "invalid_word"

(***************************************************************************)
(* Properties of the settings (specification SpecSettings)                 *)
(***************************************************************************)

F_mincho == <<109, 105, 110, 99, 104, 111>>
F_dejavu == <<100, 101, 106, 97, 118, 117>>

\* the font and setting commands of SpecSettings whose value names a
\* registered font, with that font, and those whose value does not
FontAccepted ==
    {<<T_font_mincho, F_mincho>>, <<T_font_upper, F_mincho>>, <<T_setting_font, F_dejavu>>}

FontRejected == {T_font_zz, T_font_x, T_setting_zz}

\* the persisted settings of an identity, {} when it has none
SettingsOf(blob, key) == IF key \in DOMAIN blob THEN blob[key] ELSE EmptyDict

\* the last event was answered with exactly one message
OneMessage == Len(last.replies) = 1 /\ Len(last.replies[1].messages) = 1

TheMessage == last.replies[1].messages[1]

SavingTexts ==
    {T_mode_union, T_mode_common, T_font_mincho, T_font_upper, T_setting_font,
     T_setting_mode}

\* C17: when the save of the settings fails, the reply to a font, setting,
\* mode_common or mode_union command is the save-failed message and no
\* acknowledgement of success.
C17_SaveFailureReported ==
    last.cls = "command" /\ last.event.text \in SavingTexts /\ ~last.env.save
    => /\ OneMessage
       /\ TheMessage.key = "save_failed"

\* C18: in every reachable state the persisted settings of each identity
\* hold, when present, a font that is "default" or a registered font key and
\* a quiz_mode that is "intersection" or "union"; mode_common persists
\* "intersection" and mode_union persists "union" for the sender.
C18_SettingsWellFormed ==
    /\ \A key \in DOMAIN settings :
          /\ "font" \in DOMAIN settings[key]
                => settings[key]["font"] \in FontKeyMap \cup {FontDefault}
          /\ "quiz_mode" \in DOMAIN settings[key]
                => settings[key]["quiz_mode"] \in {"intersection", "union"}
    /\ last.cls = "command" /\ last.env.save /\ last.event.text = T_mode_common
          => ModeOf(SettingsOf(settings, Sender)) = "intersection"
                /\ "quiz_mode" \in DOMAIN SettingsOf(settings, Sender)
    /\ last.cls = "command" /\ last.env.save /\ last.event.text = T_mode_union
          => ModeOf(SettingsOf(settings, Sender)) = "union"

\* an identity that had a font persisted has switched to the union mode
C18_Witness ==
    /\ last.cls = "command" /\ last.env.save /\ last.event.text = T_mode_union
    /\ "font" \in DOMAIN SettingsOf(settings, Sender)
    /\ ModeOf(SettingsOf(last.settingsBefore, Sender)) = "intersection"
    /\ ModeOf(SettingsOf(settings, Sender)) = "union"

\* C19: the settings of an identity change only when that identity sends a
\* mode_common, mode_union, font or setting command in a direct chat; every
\* other event leaves the settings of every identity as they were.
C19_SettingsFrame ==
    \A key \in Identities :
        \/ /\ (key \in DOMAIN settings) = (key \in DOMAIN last.settingsBefore)
           /\ SettingsOf(settings, key) = SettingsOf(last.settingsBefore, key)
        \/ /\ key = Sender
           /\ last.event.type = "message"
           /\ last.event.source.type = "user"
           /\ last.event.text \in SettingTexts

\* a command of one identity has changed its settings while another identity
\* had settings persisted
C19_Witness ==
    /\ last.cls = "command"
    /\ SettingsOf(settings, Sender) # SettingsOf(last.settingsBefore, Sender)
    /\ \E key \in DOMAIN last.settingsBefore :
          key # Sender /\ last.settingsBefore[key] # EmptyDict

\* C20: the keywords are recognised without a leading "/" or "#" too: the
\* bare help keyword is answered with the usage text, bare mode_union
\* persists quiz_mode "union" and bare "font <key>" persists the font.
C20_BareKeywords ==
    last.cls = "bare"
    => /\ last.event.text = B_help
            => OneMessage /\ TheMessage.key = "usage"
       /\ last.event.text = B_mode_union
            => /\ "quiz_mode" \in DOMAIN SettingsOf(settings, Sender)
               /\ SettingsOf(settings, Sender)["quiz_mode"] = "union"
       /\ last.event.text = B_font_mincho
            => /\ "font" \in DOMAIN SettingsOf(settings, Sender)
               /\ SettingsOf(settings, Sender)["font"] = F_mincho

(***************************************************************************)
(* Properties of the parser (specification SpecParse)                      *)
(***************************************************************************)

\* the text that is left after the surrounding whitespace and one leading
\* "/" or "#" are removed
HasPrefix(t) == Strip(t) # <<>> /\ Head(Strip(t)) \in {SLASH, HASH}

Remaining(t) == IF HasPrefix(t) THEN Strip(Tail(Strip(t))) ELSE Strip(t)

\* a keyword rule of the parser applies to the text
MatchesKeywordRule(t) ==
    \/ StartsWith(Remaining(t), KwFontPrefix)
    \/ /\ HasPrefix(t)
       /\ \/ Remaining(t) \in KwHelp
          \/ Remaining(t) \in {KwList, KwMenuGenerate, KwMenuRegister, KwMenuList,
                               KwMenuSettings, KwMenuUsage, KwMenuMode, KwMenuFont,
                               KwModeCommon, KwModeUnion}
          \/ StartsWith(Remaining(t), KwFont)
          \/ parse_setting(Remaining(t)).ok

\* the last step parsed a text that matches no keyword rule and has no "."
WordRuleCase ==
    /\ last.cls = "parsed"
    /\ ~MatchesKeywordRule(last.event.text)
    /\ \A i \in 1..Len(Remaining(last.event.text)) : Remaining(last.event.text)[i] # DOT

\* C21: for a text that matches no keyword rule and contains no ".", parse
\* returns both{word} exactly when the text has 2..8 characters that are all
\* allow-listed, invalid_word exactly when it has 2..8 characters of which at
\* least one is not allow-listed, and unknown when it has fewer than 2 or more
\* than 8 characters.
C21_WordRule ==
    WordRuleCase
    => LET w == Remaining(last.event.text)
       IN  IF Len(w) < 2 \/ Len(w) > 8 THEN last.command.type = "unknown"
           ELSE IF \A i \in 1..Len(w) : AllowListed(w[i])
           THEN last.command.type = "both" /\ last.command.word = w
           ELSE last.command.type = "invalid_word"

\* a text of eight characters whose last one is the last CJK ideograph has
\* been parsed as a compose request
C21_Witness ==
    /\ WordRuleCase
    /\ last.event.text = Fill(8, 8, 40959)
    /\ last.command.type = "both"

(***************************************************************************)
(* Properties of the compose reply (specification SpecMedia)               *)
(***************************************************************************)

\* the last event is a compose request for the word w in a direct chat
ComposeOf(w) ==
    last.cls = "compose" /\ last.event.source.type = "user" /\ last.event.text = w

\* the generator, the URL resolution, the encoder and the delivery work
AllSucceed ==
    /\ last.env.gen = "ok" /\ last.env.url = "ok" /\ last.env.video = "ok"
    /\ last.env.reply1 = "ok"

\* the text label of a compose reply
Label(w) == [Msg("text", "synth_result") EXCEPT !.word = w]

\* the four messages of a compose reply in their order
ComposeReply(w) ==
    <<Label(w), image_message("q", w, FontOf(SenderSettings)),
      image_message("u", w, FontOf(SenderSettings)),
      IF Len(w) = 2 THEN image_message("a", w, FontOf(SenderSettings))
      ELSE video_message(w, FontOf(SenderSettings))>>

\* C22: the reply to a compose request is the ordered list [label, question
\* image, union image, answer image] after one generator call for a
\* 2-character word, and [label, question image, union image, video] after
\* the still images and then the video were generated for a 3..8-character
\* word.
C22_ComposeOrder ==
    \A w \in ComposeTexts :
        ComposeOf(w)
        => /\ AllSucceed
                => last.replies = <<Call(ComposeReply(w), "ok")>>
           /\ Len(w) = 2
                => last.produced \subseteq {File("Q", w), File("U", w), File("A", w)}
           /\ Len(w) >= 3 /\ last.env.gen = "raise"
                => last.produced = {}

\* C23: with LocalImageStore and with GcsImageStore, a compose request for a
\* valid 3..8-character word ends, when generation and delivery succeed, with
\* a reply that holds the label, the question image, the union image and the
\* step-reveal video with its preview.
C23_ComposeVideoOnEveryStore ==
    \A w \in ComposeTexts :
        /\ ComposeOf(w) /\ Len(w) >= 3 /\ Len(w) <= 8
        /\ AllSucceed
        /\ last.env.store \in {"local", "gcs"}
        => /\ Len(last.replies) = 1
           /\ \A m \in {Label(w), image_message("q", w, FontOf(SenderSettings)),
                         image_message("u", w, FontOf(SenderSettings)),
                         video_message(w, FontOf(SenderSettings))} :
                \E i \in 1..Len(last.replies[1].messages) : last.replies[1].messages[i] = m

(***************************************************************************)
(* Properties of the pixel routines (specification SpecImage)              *)
(***************************************************************************)

\* the ink of a glyph bitmap, and the pixels of one colour of an output image
GlyphInk(g) == {c \in Coords : g[c] = BLACK}

Coloured(img, colour) == {c \in Coords : img[c] = SubSeq(colour, 1, 3)}

Ink(img) == Coloured(img, BLACK)

\* C24: the answer image of two glyph bitmaps a and b is purple exactly where
\* both are ink, blue exactly where only a is ink, red exactly where only b
\* is ink, and white exactly where neither is ink.
C24_AnswerColours ==
    last.cls = "pair"
    => LET a == GlyphInk(last.images[1])
           b == GlyphInk(last.images[2])
       IN  /\ Coloured(last.out.a, PURPLE) = a \cap b
           /\ Coloured(last.out.a, BLUE) = a \ b
           /\ Coloured(last.out.a, RED) = b \ a
           /\ Coloured(last.out.a, WHITE) = Coords \ (a \cup b)

\* an answer image that shows purple and blue has been rendered
C24_Witness ==
    /\ last.cls = "pair"
    /\ Coloured(last.out.a, PURPLE) # {}
    /\ Coloured(last.out.a, BLUE) # {}

\* C25: for every pair of glyph bitmaps the question image of the pair
\* routine is pixel for pixel the intersection image of the two bitmaps.
C25_QuestionIsIntersection ==
    last.cls = "pair" => last.out.q = process_intersection_pixels(last.images)

\* a question image with ink, made from a pair with a partly covered pixel
C25_Witness ==
    /\ last.cls = "pair"
    /\ \E c \in Coords : last.images[1][c] = GREY
    /\ Ink(last.out.q) # {}

\* C26: every ink pixel of the intersection image is an ink pixel of the
\* union image, for the two-glyph union routine and for the multi-glyph one.
C26_IntersectionWithinUnion ==
    last.cls = "with_union"
    => /\ Ink(process_intersection_pixels(last.images)) \subseteq Ink(last.out.u)
       /\ Ink(last.out.q) \subseteq Ink(last.out.u)

\* a two-glyph union with ink in its intersection
C26_Witness ==
    /\ last.cls = "with_union"
    /\ Len(last.images) = 2
    /\ Ink(last.out.q) # {}
    /\ Ink(last.out.u) # Ink(last.out.q)

\* the step frame that colours pixel c for glyphs gs at step k, computed
\* from the ink sets (k = 1 colours the first glyph red and the second blue)
InkAll(gs, k) == {c \in Coords : \A i \in 1..k : c \in GlyphInk(gs[i])}

InkAny(gs, k) == {c \in Coords : \E i \in 1..k : c \in GlyphInk(gs[i])}

\* C27: for N glyphs, N in 3..8, the video has exactly N frames: the step
\* frames for k = 1..N-1 in increasing k, then one frame whose ink is the
\* intersection of all N glyphs; the preview is the first frame.
C27_FrameSequence ==
    last.cls = "video"
    => LET N == Len(last.images)
       IN  /\ Len(last.out.frames) = N
           /\ \A k \in 1..(N - 1) : last.out.frames[k] = process_step_pixels(last.images, k)
           /\ Ink(last.out.frames[N]) = InkAll(last.images, N)
           /\ Coloured(last.out.frames[N], WHITE) = Coords \ InkAll(last.images, N)
           /\ last.out.preview = last.out.frames[1]

\* a video of the longest glyph list whose last frame has ink
C27_Witness ==
    /\ last.cls = "video"
    /\ Len(last.images) = MaxGlyphs
    /\ Ink(last.out.frames[MaxGlyphs]) # {}
    /\ last.out.frames[MaxGlyphs - 1] # last.out.frames[MaxGlyphs]

\* C28: in step frame k > 1 a pixel is red iff all prefix glyphs are ink and
\* glyph k is not, purple iff all prefix glyphs and glyph k are ink, soft
\* red iff some but not all prefix glyphs are ink and glyph k is not, blue
\* iff glyph k is ink and the prefix glyphs are not all ink, white
\* otherwise; the five cases exclude each other and cover every pixel.
C28_StepColours ==
    last.cls = "video"
    => \A k \in 2..(Len(last.images) - 1) :
         LET f == last.out.frames[k]
             all == InkAll(last.images, k)
             any == InkAny(last.images, k)
             next == GlyphInk(last.images[k + 1])
             red == all \ next
             purple == all \cap next
             soft == (any \ all) \ next
             blue == next \ all
         IN  /\ Coloured(f, RED) = red
             /\ Coloured(f, PURPLE) = purple
             /\ Coloured(f, RED_SOFT) = soft
             /\ Coloured(f, BLUE) = blue
             /\ Coloured(f, WHITE) = Coords \ (red \cup purple \cup soft \cup blue)
             /\ \A c \in Coords :
                  Cardinality({x \in {RED, PURPLE, RED_SOFT, BLUE, WHITE} :
                                  c \in Coloured(f, x)}) = 1

\* a step frame after the first that shows red and soft red
C28_Witness ==
    /\ last.cls = "video"
    /\ \E k \in 2..(Len(last.images) - 1) :
         /\ Coloured(last.out.frames[k], RED) # {}
         /\ Coloured(last.out.frames[k], RED_SOFT) # {}

\* C29: the purple set of step frame k+1 is within the purple set of step
\* frame k for every k in 1..N-2, and the purple set of step frame N-1 is the
\* ink set of the final intersection frame.
C29_HighlightNarrows ==
    last.cls = "video"
    => LET N == Len(last.images)
       IN  /\ \A k \in 1..(N - 2) :
                Coloured(last.out.frames[k + 1], PURPLE)
                    \subseteq Coloured(last.out.frames[k], PURPLE)
           /\ Coloured(last.out.frames[N - 1], PURPLE) = Ink(last.out.frames[N])

\* a video whose highlight shrinks at a step and does not vanish
C29_Witness ==
    /\ last.cls = "video"
    /\ Coloured(last.out.frames[2], PURPLE) # Coloured(last.out.frames[1], PURPLE)
    /\ Ink(last.out.frames[Len(last.images)]) # {}

(***************************************************************************)
(* Properties of the generator's word lengths (specification SpecParse)    *)
(***************************************************************************)

\* the kinds of the files a generator call left
Kinds(step) == {f.kind : f \in step.files}

\* a call that raised before it wrote anything
FailedClean(step) == ~step.ok /\ step.files = {}

\* C30: the question/answer/union operation yields question, answer and
\* union for a 2-character word, question and union without an answer for a
\* word of 3..8 characters, and fails without writing a file for any other
\* length; the pair-only operation fails for every length other than 2 and
\* the video operation for every length outside 3..8.
C30_WordLengthPolicy ==
    /\ last.cls = "images_with_union"
       => /\ (Len(last.word) = 2 /\ last.env.gen = "ok")
             => (last.step.ok /\ Kinds(last.step) = {"Q", "A", "U"})
          /\ (Len(last.word) \in {3, 4, 5, 6, 7, 8} /\ last.env.gen = "ok")
             => (last.step.ok /\ Kinds(last.step) = {"Q", "U"})
          /\ (Len(last.word) \notin {2, 3, 4, 5, 6, 7, 8}) => FailedClean(last.step)
    /\ last.cls = "images"
       => /\ (Len(last.word) # 2) => FailedClean(last.step)
          /\ (Len(last.word) = 2 /\ last.env.gen = "ok") => last.step.ok
    /\ last.cls = "union_video"
       => /\ (Len(last.word) \notin {3, 4, 5, 6, 7, 8}) => FailedClean(last.step)
          /\ (Len(last.word) \in {3, 4, 5, 6, 7, 8} /\ last.env.video = "ok"
                 /\ last.env.gen = "ok")
             => last.step.ok

\* a word of nine characters has been refused by the question/answer/union
\* operation
C30_Witness ==
    /\ last.cls = "images_with_union"
    /\ Len(last.word) = 9
    /\ FailedClean(last.step)

(***************************************************************************)
(* The first step frame (specification SpecImage)                          *)
(***************************************************************************)

\* C39: the branch for step 1 gives, for every first two glyphs, the frame
\* the general colouring rule gives at step 1: purple where both are ink,
\* red where only the first is, blue where only the second is, white where
\* neither is, and soft red nowhere.
C39_FirstStepIsGeneralRule ==
    last.cls = "video"
    => LET f == last.out.frames[1]
           a == GlyphInk(last.images[1])
           b == GlyphInk(last.images[2])
       IN  /\ f = process_step_pixels_general(last.images, 1)
           /\ Coloured(f, PURPLE) = a \cap b
           /\ Coloured(f, RED) = a \ b
           /\ Coloured(f, BLUE) = b \ a
           /\ Coloured(f, WHITE) = Coords \ (a \cup b)
           /\ Coloured(f, RED_SOFT) = {}

\* a first step frame that shows red and blue
C39_Witness ==
    /\ last.cls = "video"
    /\ Coloured(last.out.frames[1], RED) # {}
    /\ Coloured(last.out.frames[1], BLUE) # {}

(***************************************************************************)
(* Specification SpecFiles: the generate_* calls with a font_key argument  *)
(***************************************************************************)

\* font keys: mincho, dejavu, MINCHO, zz, x, min-cho, abcdefghijk (eleven
\* characters), "default" and "mincho" followed by a line feed
FK_mincho == <<109, 105, 110, 99, 104, 111>>
FK_dejavu == <<100, 101, 106, 97, 118, 117>>
FK_upper == <<77, 73, 78, 67, 72, 79>>
FK_zz == <<122, 122>>
FK_x == <<120>>
FK_hyphen == <<109, 105, 110, 45, 99, 104, 111>>
FK_11 == <<97, 98, 99, 100, 101, 102, 103, 104, 105, 106, 107>>
FK_default_nl == FontDefault \o <<NL>>
FK_mincho_nl == FK_mincho \o <<NL>>

FontArgs ==
    {FontArg("omitted", <<>>), FontArg("none", <<>>)}
    \cup {FontArg("str", k) :
            k \in {<<>>, FontDefault, FK_mincho, FK_dejavu, FK_upper, FK_zz, FK_x,
                   FK_hyphen, FK_11, FK_default_nl, FK_mincho_nl}}

FileWords == {W_1, W_ok, W_shinrin, W_ongakusei, W_8, W_9}

InitFiles ==
    /\ quiz = EmptyQuiz
    /\ settings = EmptyDict
    /\ \E word \in FileWords, arg \in FontArgs, fontfile \in BOOLEAN, ffmpeg \in BOOLEAN :
         last = [cls |-> "call", word |-> word, arg |-> arg,
                 fontfile |-> fontfile, ffmpeg |-> ffmpeg]
    /\ n = 0
    /\ cb = IdleCb
    /\ procs = NoProcs

\* the outcome of a generate_* call on the arguments drawn
Called(cls, saved) ==
    /\ last' = [cls |-> cls, word |-> last.word, arg |-> last.arg,
                fontfile |-> last.fontfile, ffmpeg |-> last.ffmpeg, saved |-> saved]
    /\ n' = 1
    /\ UNCHANGED <<quiz, settings, cb, procs>>

CallImages ==
    /\ n = 0
    /\ last.cls = "call"
    /\ Called("images", generate_images_files(last.word, last.arg, last.fontfile))

CallImagesWithUnion ==
    /\ n = 0
    /\ last.cls = "call"
    /\ Called("with_union", generate_images_with_union_files(last.word, last.arg, last.fontfile))

CallUnionVideo ==
    /\ n = 0
    /\ last.cls = "call"
    /\ Called("video",
              generate_union_video_files(last.word, last.arg, last.fontfile, last.ffmpeg))

NextFiles == CallImages \/ CallImagesWithUnion \/ CallUnionVideo

SpecFiles == InitFiles /\ [][NextFiles]_vars

(***************************************************************************)
(* Properties of the file names and the font argument (SpecFiles)          *)
(***************************************************************************)

\* the font arguments the generator accepts, with the key it works with
AcceptedArgs ==
    {<<FontArg("omitted", <<>>), FontDefault>>, <<FontArg("none", <<>>), FontDefault>>,
     <<FontArg("str", <<>>), FontDefault>>, <<FontArg("str", FontDefault), FontDefault>>,
     <<FontArg("str", FK_mincho), FK_mincho>>, <<FontArg("str", FK_dejavu), FK_dejavu>>}

KeyOf(arg) == (CHOOSE p \in AcceptedArgs : p[1] = arg)[2]

IsAccepted(arg) == \E p \in AcceptedArgs : p[1] = arg

\* <Kind>_<word>.<ext>, or <Kind>_<word>_<fontKey>.<ext> for a key that is not
\* "default"; Kind and ext as Q/A/U/P with png and V with mp4
PatternName(kind, word, key) ==
    LET ext == IF kind = "V" THEN <<46, 109, 112, 52>> ELSE <<46, 112, 110, 103>>
        letter == CASE kind = "Q" -> 81 [] kind = "A" -> 65 [] kind = "U" -> 85
                    [] kind = "V" -> 86 [] kind = "P" -> 80
    IN  IF key = FontDefault THEN <<letter, 95>> \o word \o ext
        ELSE <<letter, 95>> \o word \o <<95>> \o key \o ext

\* C31: every file a generate_* call writes is named <Kind>_<word>.<ext> when
\* the normalized font key is "default" and <Kind>_<word>_<fontKey>.<ext>
\* otherwise, Q, A, U and P with png and V with mp4; an empty or missing
\* font key gives the names of "default".
C31_FileNames ==
    (last.cls \in {"images", "with_union", "video"} /\ last.saved.names # {})
    => /\ IsAccepted(last.arg)
       /\ last.saved.names \subseteq
              {PatternName(kind, last.word, KeyOf(last.arg)) :
                  kind \in {"Q", "A", "U", "V", "P"}}
       /\ last.cls = "images"
          => last.saved.names = {PatternName(kind, last.word, KeyOf(last.arg)) :
                                    kind \in {"Q", "A"}}
       /\ last.cls = "with_union"
          => last.saved.names
                 = {PatternName(kind, last.word, KeyOf(last.arg)) :
                       kind \in IF Len(last.word) = 2 THEN {"Q", "A", "U"} ELSE {"Q", "U"}}
       /\ last.cls = "video"
          => last.saved.names
                 = {PatternName(kind, last.word, KeyOf(last.arg)) :
                       kind \in IF last.saved.ok THEN {"V", "P"} ELSE {"P"}}

\* the question and the union file of a call with font key None
C31_Witness ==
    /\ last.cls = "with_union"
    /\ last.arg.kind = "none"
    /\ last.saved.names = {PatternName("Q", last.word, FontDefault),
                           PatternName("U", last.word, FontDefault)}

\* C32: font normalization maps the empty string and None to "default",
\* returns a key unchanged that matches ^[A-Za-z0-9]{2,10}$ and is "default"
\* or registered, and raises for every other string; a generate_* call with
\* a rejected key raises before it writes a file.
C32_FontNormalization ==
    last.cls \in {"images", "with_union", "video"}
    => /\ IsAccepted(last.arg)
          => /\ normalize_font_key_arg(last.arg).ok
             /\ normalize_font_key_arg(last.arg).font = KeyOf(last.arg)
       /\ ~IsAccepted(last.arg)
          => /\ ~normalize_font_key_arg(last.arg).ok
             /\ ~last.saved.ok
             /\ last.saved.names = {}

\* a call with an unregistered key in upper case has raised
C32_Witness ==
    /\ last.cls = "with_union"
    /\ last.arg = FontArg("str", FK_upper)
    /\ Len(last.word) = 2
    /\ ~last.saved.ok

(***************************************************************************)
(* Specification SpecMention: _strip_mention_text on every short list of   *)
(* mention ranges                                                          *)
(***************************************************************************)

\* the longest text, the most mentionees and the longest mention range
MaxMentionText == 5
MaxMentions == 2
MaxMentionLength == 3

\* texts of distinct characters: "", "a", "ab", ...
MentionTexts == {[i \in 1..len |-> 96 + i] : len \in 0..MaxMentionText}

MentionRanges(t) ==
    {Mention("u1", index, length) : index \in 0..(Len(t) + 1), length \in 0..MaxMentionLength}

MentionLists(t) == UNION {[1..k -> MentionRanges(t)] : k \in 0..MaxMentions}

InitMention ==
    /\ quiz = EmptyQuiz
    /\ settings = EmptyDict
    /\ \E t \in MentionTexts : \E ms \in MentionLists(t) :
         last = [cls |-> "mentions", text |-> t, mentionees |-> ms]
    /\ n = 0
    /\ cb = IdleCb
    /\ procs = NoProcs

\* _strip_mention_text is applied to the text and its mentionees
StripMentions ==
    /\ n = 0
    /\ last.cls = "mentions"
    /\ last' = [cls |-> "stripped", text |-> last.text, mentionees |-> last.mentionees,
                out |-> strip_mention_text(last.text, last.mentionees)]
    /\ n' = 1
    /\ UNCHANGED <<quiz, settings, cb, procs>>

NextMention == StripMentions

SpecMention == InitMention /\ [][NextMention]_vars

(***************************************************************************)
(* Properties of mention stripping (specification SpecMention)             *)
(***************************************************************************)

\* the positions (1-based) of t that a mention range covers
RangeOf(m) == {p \in 1..(m.index + m.length) : m.index < p /\ p <= m.index + m.length}

Covered(t, ms) == {p \in 1..Len(t) : \E i \in 1..Len(ms) : ms[i].index < p /\ p <= ms[i].index + ms[i].length}

\* t without the characters at the positions in S (the characters of a text
\* of MentionTexts are distinct)
Without(t, S) == SelectSeq(t, LAMBDA c : c \notin {t[p] : p \in S})

Reversed(ms) == [i \in 1..Len(ms) |-> ms[Len(ms) + 1 - i]]

\* no two mention ranges share a position and each lies within the text
WellPlaced(t, ms) ==
    /\ \A i \in 1..Len(ms) : ms[i].length > 0 /\ ms[i].index + ms[i].length <= Len(t)
    /\ \A i, j \in 1..Len(ms) : i # j => RangeOf(ms[i]) \cap RangeOf(ms[j]) = {}

\* C33: mention stripping returns the text with exactly the characters of
\* all mention ranges removed and every other character kept in order; for
\* non-overlapping in-range mentions the result does not depend on the
\* order in which the mentionees are listed.
C33_StripExact ==
    last.cls = "stripped"
    => /\ last.out = Without(last.text, Covered(last.text, last.mentionees))
       /\ WellPlaced(last.text, last.mentionees)
          => strip_mention_text(last.text, Reversed(last.mentionees)) = last.out

(***************************************************************************)
(* The question and answer commands (specification SpecParse)              *)
(***************************************************************************)

\* C34: a direct message of the question keyword followed by a 2-character
\* word is answered with exactly one message, the question image of the
\* word, and one of the answer keyword followed by a 2-character word with
\* exactly one message, the answer image of the word.
C34_QuestionAnswerCommands ==
    last.cls = "handled"
    => /\ last.event.text \in {T_question_ok, T_slash_question_ok}
          => /\ Len(last.replies) = 1
             /\ Len(last.replies[1].messages) = 1
             /\ last.replies[1].messages[1].type = "image"
             /\ last.replies[1].messages[1].key = "q"
             /\ last.replies[1].messages[1].word = W_ok
       /\ last.event.text \in {T_answer_ok, T_hash_answer_ok}
          => /\ Len(last.replies) = 1
             /\ Len(last.replies[1].messages) = 1
             /\ last.replies[1].messages[1].type = "image"
             /\ last.replies[1].messages[1].key = "a"
             /\ last.replies[1].messages[1].word = W_ok

(***************************************************************************)
(* Specification SpecList: registrations, the list command, and the list   *)
(* text sent back                                                          *)
(***************************************************************************)

\* 1.ok, 2.abcdefgh, 7.<the unset label>, 10.森林
ListRegTexts ==
    {RegText(N_1, W_ok), RegText(N_2, W_8), RegText(N_7, QuizUnset), RegText(N_10, W_shinrin)}

\* a direct message "<n>.<word>", before the list is asked for
ListRegister ==
    /\ n < MaxEvents
    /\ last.cls \in {"init", "register"}
    /\ \E u \in UserIds, t \in ListRegTexts : Handle("register", DirectEvent(u, t), OkEnv)

\* the list command
ListCommand ==
    /\ last.cls \in {"init", "register"}
    /\ \E u \in UserIds : Handle("list", DirectEvent(u, T_list), OkEnv)

\* the sender of the list command sends the text of the reply back
ListBack ==
    /\ last.cls = "list"
    /\ Len(last.replies) = 1
    /\ Len(last.replies[1].messages) = 1
    /\ Handle("listback",
              DirectEvent(last.event.source.userId, last.replies[1].messages[1].body),
              OkEnv)

NextList == ListRegister \/ ListCommand \/ ListBack

SpecList == Init /\ [][NextList]_vars

(***************************************************************************)
(* Properties of the list round trip (specification SpecList)              *)
(***************************************************************************)

\* C35: the text the list command produced, sent back as a direct message,
\* is accepted as a bulk update and leaves all ten slots of the sender
\* unchanged.
C35_ListRoundTrip ==
    last.cls = "listback"
    => /\ Len(last.replies) = 1
       /\ last.replies[1].messages = <<text_message("bulk_update_success", FALSE)>>
       /\ quiz[get_user_key(last.event.source)] = last.quizBefore[get_user_key(last.event.source)]

(***************************************************************************)
(* Specification SpecSlot: registrations of one user handled by handlers   *)
(* that run in parallel.  A handler is interleaved with the others at the  *)
(* two accesses of set_word to the quiz_items table: the read of get_word  *)
(* and the upsert.  Each access is taken as atomic.                        *)
(***************************************************************************)

SlotNumbers == {1, 2}

SlotWords == {W_ok, W_shinrin, W_8}

\* a handler that has not received its registration
IdleSlot ==
    [pc |-> "idle", number |-> 0, word |-> <<>>, old_word |-> <<>>, completed |-> {}]

InitSlot ==
    /\ quiz = EmptyQuiz
    /\ settings = EmptyDict
    /\ last = [cls |-> "slots", h |-> [p \in Handlers |-> IdleSlot], overlapped |-> FALSE]
    /\ n = 0
    /\ cb = IdleCb
    /\ procs = NoProcs

\* handler p receives "<number>.<word>" from u1 and runs up to and including
\* old_word = self.get_word(user_id, number)
SlotRead(p) ==
    /\ last.h[p].pc = "idle"
    /\ \E number \in SlotNumbers, word \in SlotWords :
         last' = [last EXCEPT
                    !.h[p] = [pc |-> "read", number |-> number, word |-> word,
                              old_word |-> get_word(quiz, <<"user", "u1">>, number),
                              completed |-> {}],
                    !.overlapped = @ \/ \E o \in Handlers \ {p} :
                                           /\ last.h[o].pc \in {"read", "written"}
                                           /\ last.h[o].number = number]
    /\ UNCHANGED <<quiz, settings, n, cb, procs>>

\* the INSERT ... ON CONFLICT DO UPDATE of set_word (the put of the
\* Datastore store)
SlotWrite(p) ==
    /\ last.h[p].pc = "read"
    /\ quiz' = set_word(quiz, <<"user", "u1">>, last.h[p].number, last.h[p].word).quiz
    /\ last' = [last EXCEPT !.h[p].pc = "written"]
    /\ UNCHANGED <<settings, n, cb, procs>>

\* set_word returns old_word to the caller; completed is the set of the
\* registrations into the same slot that had returned by then
SlotReturn(p) ==
    /\ last.h[p].pc = "written"
    /\ last' = [last EXCEPT
                  !.h[p].pc = "returned",
                  !.h[p].completed = {o \in Handlers \ {p} :
                                         /\ last.h[o].pc = "returned"
                                         /\ last.h[o].number = last.h[p].number}]
    /\ UNCHANGED <<quiz, settings, n, cb, procs>>

NextSlot == \E p \in Handlers : SlotRead(p) \/ SlotWrite(p) \/ SlotReturn(p)

SpecSlot == InitSlot /\ [][NextSlot]_vars

(***************************************************************************)
(* Properties of interleaved registrations (specification SpecSlot)        *)
(***************************************************************************)

\* the handlers that registered into slot s
Into(s) == {p \in Handlers : last.h[p].number = s}

\* the orders in which the handlers of S can have run one after the other
SerialOrders(S) ==
    {f \in [1..Cardinality(S) -> S] : \A i, j \in 1..Cardinality(S) : i # j => f[i] # f[j]}

\* the old words are those of the registrations run in the order f on an
\* empty slot
OldWordsOf(f) ==
    \A i \in DOMAIN f :
        last.h[f[i]].old_word = IF i = 1 THEN <<>> ELSE last.h[f[i - 1]].word

\* C36: when registrations into one slot are interleaved, the old words
\* returned to the callers are those of some serial order of the writes,
\* and no caller is told that the slot was empty after another registration
\* into it has completed.
C36_SerialOldWords ==
    (last.cls = "slots" /\ \A p \in Handlers : last.h[p].pc = "returned")
    => \A s \in SlotNumbers :
         /\ \E f \in SerialOrders(Into(s)) : OldWordsOf(f)
         /\ \A p \in Into(s) : last.h[p].old_word = <<>> => last.h[p].completed = {}

(***************************************************************************)
(* Frame of the group flows (specification SpecGroup)                      *)
(***************************************************************************)

\* C37: dispatch, answer release and answer check, and the group messages
\* that mention nobody, never write or delete a quiz slot and never write
\* the settings of an identity, whatever their outcome.
C37_GroupFlowsReadOnly ==
    last.cls \in {"dispatch", "release", "answer", "plain"}
    => /\ quiz = last.quizBefore
       /\ settings = last.settingsBefore

\* a registration text sent to a group without mention by a user whose
\* slot 1 holds a word and who has settings persisted
C37_Witness ==
    /\ last.cls = "plain"
    /\ last.event.text = RegText(N_1, W_shinrin)
    /\ last.event.source.userId = "u1"
    /\ get_word(quiz, <<"user", "u1">>, 1) = W_ok
    /\ <<"user", "u1">> \in DOMAIN settings

(***************************************************************************)
(* Independence of font and mode (specification SpecSettings)              *)
(***************************************************************************)

\* the value an identity has persisted under a field, <<>> when it has none
PersistedField(blob, key, field) ==
    IF key \in DOMAIN blob /\ field \in DOMAIN blob[key] THEN <<blob[key][field]>> ELSE <<>>

FontChanges == {<<T_font_mincho, F_mincho>>, <<T_font_upper, F_mincho>>, <<T_setting_font, F_dejavu>>}

ModeChanges == {T_mode_union, T_mode_common}

\* C38: with events handled one at a time, a successful font change leaves
\* the sender's quiz_mode unchanged, a mode change leaves the sender's font
\* unchanged, and neither changes any key of another identity's settings.
C38_FontModeIndependent ==
    last.cls = "command"
    => /\ \A c \in FontChanges :
            (last.event.text = c[1] /\ last.env.save)
            => /\ PersistedField(settings, Sender, "font") = <<c[2]>>
               /\ PersistedField(settings, Sender, "quiz_mode")
                      = PersistedField(last.settingsBefore, Sender, "quiz_mode")
       /\ last.event.text \in ModeChanges
            => PersistedField(settings, Sender, "font")
                   = PersistedField(last.settingsBefore, Sender, "font")
       /\ last.event.text \in ModeChanges \cup {c[1] : c \in FontChanges}
            => \A key \in Identities \ {Sender} :
                   /\ (key \in DOMAIN settings) = (key \in DOMAIN last.settingsBefore)
                   /\ SettingsOf(settings, key) = SettingsOf(last.settingsBefore, key)

\* a font has been set by an identity that had the union mode persisted
C38_Witness ==
    /\ last.cls = "command"
    /\ last.event.text = T_font_mincho
    /\ last.env.save
    /\ PersistedField(last.settingsBefore, Sender, "quiz_mode") = <<"union">>
    /\ PersistedField(settings, Sender, "quiz_mode") = <<"union">>
    /\ PersistedField(settings, Sender, "font") = <<F_mincho>>

====
